---- MODULE Spec2Model ----
(***************************************************************************)
(* Pacts (rust): schema loader, structural validator and service facade.   *)
(* Modelled from src/rust/src/core/schema_loader.rs,                       *)
(* src/rust/src/core/validator.rs and src/rust/src/impl/service.rs.        *)
(***************************************************************************)
EXTENDS Integers, Sequences, FiniteSets, TLC

(***************************************************************************)
(* Bounds of the model.                                                    *)
(***************************************************************************)
\* number of changes the environment makes to the local filesystem
MaxFsWrites == 2

(***************************************************************************)
(* serde_json::Value                                                       *)
(***************************************************************************)
JNull == [kind |-> "null"]
JBool(b) == [kind |-> "boolean", b |-> b]
JNum(n) == [kind |-> "number", n |-> n]
JStr(s) == [kind |-> "string", s |-> s]
JArr(items) == [kind |-> "array", items |-> items]
JObj(fields) == [kind |-> "object", fields |-> fields]

NoFields == [k \in {} |-> JNull]

\* Value::get(&str): Some only for a key of an object
HasKey(v, k) == v.kind = "object" /\ k \in DOMAIN v.fields
Get(v, k) == v.fields[k]

\* iteration order of serde_json::Map (a BTreeMap: keys in ascending order)
KeyOrder == <<"id", "name", "slot">>

(***************************************************************************)
(* Schema documents and payloads used as inputs                            *)
(***************************************************************************)
SchemaA ==
    JObj([k \in {"type", "required", "properties"} |->
            CASE k = "type" -> JStr("object")
              [] k = "required" -> JArr(<<JStr("id")>>)
              [] k = "properties" -> JObj([p \in {"id"} |-> JObj([t \in {"type"} |-> JStr("string")])])])
SchemaB == JObj([k \in {"type"} |-> JStr("array")])
SchemaEmb == JObj([k \in {"type"} |-> JStr("object")])

DataValues ==
    { JObj(NoFields),
      JObj([k \in {"id"} |-> JStr("1")]),
      JObj([k \in {"id"} |-> JNum(1)]),
      JArr(<<>>) }

(***************************************************************************)
(* ValidationResult (core/validator.rs)                                    *)
(***************************************************************************)
ValidationResult_new(valid, errors) == [valid |-> valid, errors |-> errors]
ValidationResult_success == [valid |-> TRUE, errors |-> <<>>]
ValidationResult_failure(errors) == [valid |-> FALSE, errors |-> errors]

RECURSIVE Join(_, _)
\* [String]::join(sep)
Join(strs, sep) ==
    IF Len(strs) = 0 THEN ""
    ELSE IF Len(strs) = 1 THEN strs[1]
    ELSE strs[1] \o sep \o Join(Tail(strs), sep)

error_message(result) ==
    IF Len(result.errors) = 0 THEN "Validation successful"
    ELSE Join(result.errors, "; ")

(***************************************************************************)
(* Validator: structural checks (core/validator.rs)                        *)
(***************************************************************************)
\* mutant: a type that is not one of the six is never satisfied
validate_type_strict(data, expected_type) ==
    expected_type \in {"object", "array", "string", "number", "boolean", "null"}
       /\ data.kind = expected_type

validate_type(data, expected_type) ==
    CASE expected_type = "object" -> data.kind = "object"
      [] expected_type = "array" -> data.kind = "array"
      [] expected_type = "string" -> data.kind = "string"
      [] expected_type = "number" -> data.kind = "number"
      [] expected_type = "boolean" -> data.kind = "boolean"
      [] expected_type = "null" -> data.kind = "null"
      [] OTHER -> TRUE

RECURSIVE RequiredErrors(_, _)
\* the loop over required_array
RequiredErrors(items, data) ==
    IF Len(items) = 0 THEN <<>>
    ELSE LET field == Head(items)
             here == IF field.kind = "string" /\ ~HasKey(data, field.s)
                     THEN <<"Required field missing: " \o field.s>>
                     ELSE <<>>
         IN here \o RequiredErrors(Tail(items), data)

\* mutant: a field whose value is null counts as missing
validate_required_fields_null_is_missing(data, schema) ==
    LET valued == IF data.kind = "object"
                  THEN JObj([k \in { f \in DOMAIN data.fields : data.fields[f].kind # "null" }
                               |-> data.fields[k]])
                  ELSE data
    IN IF HasKey(schema, "required") /\ Get(schema, "required").kind = "array"
       THEN RequiredErrors(Get(schema, "required").items, valued)
       ELSE <<>>

\* mutant: the loop stops at the first missing field
validate_required_fields_first_only(data, schema) ==
    IF HasKey(schema, "required") /\ Get(schema, "required").kind = "array"
    THEN SubSeq(RequiredErrors(Get(schema, "required").items, data), 1, 1)
    ELSE <<>>

validate_required_fields(data, schema) ==
    IF HasKey(schema, "required") /\ Get(schema, "required").kind = "array"
    THEN RequiredErrors(Get(schema, "required").items, data)
    ELSE <<>>

\* mutant: a declared type that is not a string is rejected
validate_type_schema_rejects(data, schema) ==
    IF HasKey(schema, "type") /\ Get(schema, "type").kind # "string"
    THEN <<"Invalid schema: type must be a string">>
    ELSE IF /\ HasKey(schema, "type")
            /\ ~validate_type(data, Get(schema, "type").s)
         THEN <<"Invalid type. Expected: " \o Get(schema, "type").s>>
         ELSE <<>>

validate_type_schema(data, schema) ==
    IF /\ HasKey(schema, "type")
       /\ Get(schema, "type").kind = "string"
       /\ ~validate_type(data, Get(schema, "type").s)
    THEN <<"Invalid type. Expected: " \o Get(schema, "type").s>>
    ELSE <<>>

\* mutant: the value of the property is validated against the whole fragment
validate_property_type_deep(data, property_name, property_schema) ==
    IF HasKey(data, property_name)
    THEN validate_required_fields(Get(data, property_name), property_schema)
           \o (IF /\ HasKey(property_schema, "type")
                  /\ Get(property_schema, "type").kind = "string"
                  /\ ~validate_type(Get(data, property_name), Get(property_schema, "type").s)
               THEN <<"Invalid type for field '" \o property_name \o "'. Expected: "
                        \o Get(property_schema, "type").s>>
               ELSE <<>>)
    ELSE <<>>

validate_property_type(data, property_name, property_schema) ==
    IF /\ HasKey(property_schema, "type")
       /\ Get(property_schema, "type").kind = "string"
       /\ HasKey(data, property_name)
       /\ ~validate_type(Get(data, property_name), Get(property_schema, "type").s)
    THEN <<"Invalid type for field '" \o property_name \o "'. Expected: "
             \o Get(property_schema, "type").s>>
    ELSE <<>>

RECURSIVE PropertyErrors(_, _, _)
\* the loop over properties_obj, in map order
PropertyErrors(names, data, properties) ==
    IF Len(names) = 0 THEN <<>>
    ELSE LET property_name == Head(names)
             here == IF property_name \in DOMAIN properties.fields
                        /\ HasKey(data, property_name)
                     THEN validate_property_type(data, property_name,
                                                 properties.fields[property_name])
                     ELSE <<>>
         IN here \o PropertyErrors(Tail(names), data, properties)

validate_properties(data, schema) ==
    IF /\ HasKey(schema, "properties")
       /\ data.kind = "object"
       /\ Get(schema, "properties").kind = "object"
    THEN PropertyErrors(KeyOrder, data, Get(schema, "properties"))
    ELSE <<>>

\* mutant: the type of data is checked before its required fields
validate_data_type_first(data, schema) ==
    LET errors == validate_type_schema(data, schema)
                    \o validate_required_fields(data, schema)
                    \o validate_properties(data, schema)
    IN ValidationResult_new(Len(errors) = 0, errors)

\* mutant: the result is built as valid whatever the errors
validate_data_always_valid(data, schema) ==
    LET errors == validate_required_fields(data, schema)
                    \o validate_type_schema(data, schema)
                    \o validate_properties(data, schema)
    IN ValidationResult_new(TRUE, errors)

validate_data(data, schema) ==
    LET errors == validate_required_fields(data, schema)
                    \o validate_type_schema(data, schema)
                    \o validate_properties(data, schema)
    IN ValidationResult_new(Len(errors) = 0, errors)

(***************************************************************************)
(* Option, local filesystem, bundled assets                                *)
(***************************************************************************)
None == [some |-> FALSE]
Some(v) == [some |-> TRUE, v |-> v]

TextA == "{\"type\":\"object\",\"required\":[\"id\"],\"properties\":{\"id\":{\"type\":\"string\"}}}"
TextB == "{\"type\":\"array\"}"
TextEmb == "{\"type\":\"object\"}"
TextBad == "invalid json content"

\* serde_json::from_str / from_slice: the texts that parse, and their values
JsonTexts == (TextA :> SchemaA) @@ (TextB :> SchemaB) @@ (TextEmb :> SchemaEmb)
from_str(text) ==
    IF text \in DOMAIN JsonTexts
    THEN [ok |-> TRUE, value |-> JsonTexts[text]]
    ELSE [ok |-> FALSE]

NoFile == [exists |-> FALSE]
File(text) == [exists |-> TRUE, text |-> text]
FileStates == {NoFile} \cup {File(t) : t \in {TextA, TextB, TextBad}}

\* the local files the environment may create, change or delete
FsPaths ==
    { <<"schemas", "bees", "v1", "inventory", "inventory_item.json">>,
      <<"schemas", "bees", "v2", "inventory", "inventory_item.json">> }

\* #[derive(Embed)] #[folder = "../schemas"]: the compiled-in, read-only table
EmbeddedSchemas == [p \in {"bees/v1/inventory/inventory_item.json"} |-> TextEmb]

Roots == {"schemas"}
Domains == {"bees"}
Versions == {"v1", "v2"}
Categories == {"inventory"}
Names == {"inventory_item", "ghost"}

VARIABLES
    fs,             \* local filesystem: FsPaths -> FileStates
    readdir_order,  \* order in which fs::read_dir lists the version directories
    fs_writes,      \* number of environment changes so far
    loader,         \* a SchemaLoader used directly: None or Some(loader)
    validator,      \* a Validator: None or Some([schema_loader |-> loader])
    service,        \* a PactsService: None or Some([validator, schema_loader])
    panicked,       \* a panic! unwound the caller
    last,           \* the last operation: its name, arguments, result and source accesses
    first_loaded,   \* history: <<category, name>> -> first load_schema result since clear_cache
    dir_loaded,     \* history: load_schema_by_directory results resolved from the sources
    cleared_keys,   \* history: <<category, name>> resolved before a clear_cache;
                    \*          TRUE until load_schema is called for it again
    ever_populated  \* history: some source has put a schema into the loader's cache

vars == <<fs, readdir_order, fs_writes, loader, validator, service, panicked, last,
          first_loaded, dir_loaded, cleared_keys, ever_populated>>

\* Path::new(root)
PathNew(root) == IF root = "" THEN <<>> ELSE <<root>>
\* Path::join: pushing an empty component adds no component
PathJoin(p, c) == IF c = "" THEN p ELSE Append(p, c)

FileAt(p) == IF p \in DOMAIN fs THEN fs[p] ELSE NoFile
\* Path::exists on a file path
PathExists(p) == FileAt(p).exists
\* Path::exists && Path::is_dir: a directory exists when a file lies below it
IsDir(d) ==
    \E p \in DOMAIN fs :
        fs[p].exists /\ Len(p) > Len(d) /\ SubSeq(p, 1, Len(d)) = d

\* Regex ^v(\d+)$ on the directory names of the model
VersionRegexMatches(name) == name \in {"v1", "v2"}

RECURSIVE FirstVersionDir(_, _)
\* read_dir(domain_path) filtered to directories matching the regex, .next()
FirstVersionDir(domain_path, order) ==
    IF Len(order) = 0 THEN None
    ELSE IF IsDir(Append(domain_path, Head(order))) /\ VersionRegexMatches(Head(order))
         THEN Some(Head(order))
         ELSE FirstVersionDir(domain_path, Tail(order))

(***************************************************************************)
(* SchemaLoader (core/schema_loader.rs)                                    *)
(***************************************************************************)
NoCache == [k \in {} |-> JNull]

SchemaLoader(schema_root, domain, version) ==
    [schema_cache |-> NoCache, schema_root |-> schema_root,
     domain |-> domain, version |-> version]

\* mutant: construction resolves the bundled assets into the cache
SchemaLoader_new_eager(schema_root, domain, version) ==
    IF schema_root = "" \/ domain = "" \/ version = ""
    THEN None
    ELSE Some([SchemaLoader(schema_root, domain, version) EXCEPT
                 !.schema_cache = [k \in {"bees/v1/inventory/inventory_item"} |-> SchemaEmb]])

\* mutant: the parameters are not checked
SchemaLoader_new_unchecked(schema_root, domain, version) ==
    Some(SchemaLoader(schema_root, domain, version))

\* SchemaLoader::new: panics on an empty parameter (None)
SchemaLoader_new(schema_root, domain, version) ==
    IF schema_root = "" \/ domain = "" \/ version = ""
    THEN None
    ELSE Some(SchemaLoader(schema_root, domain, version))

with_base_path(schema_base_path) == SchemaLoader(schema_base_path, "", "")
with_version(schema_base_path, version_directory) ==
    SchemaLoader(schema_base_path, "", version_directory)

\* format!("{}/{}/{}/{}", self.domain, self.version, category, name)
CacheKey(l, category, name) ==
    l.domain \o "/" \o l.version \o "/" \o category \o "/" \o name
\* format!("{}_{}_{}", domain, category, schema_name)
DirCacheKey(domain, category, schema_name) ==
    domain \o "_" \o category \o "_" \o schema_name

\* mutant: the bundled assets are consulted before the local file
ReadSource_embedded_first(file_path, resource_path) ==
    IF resource_path \in DOMAIN EmbeddedSchemas
    THEN LET r == from_str(EmbeddedSchemas[resource_path])
         IN IF r.ok
            THEN [ok |-> TRUE, value |-> r.value, trace |-> <<"embedded_get">>]
            ELSE [ok |-> FALSE, trace |-> <<"embedded_get">>]
    ELSE IF PathExists(file_path)
         THEN LET r == from_str(FileAt(file_path).text)
              IN IF r.ok
                 THEN [ok |-> TRUE, value |-> r.value,
                       trace |-> <<"embedded_get", "fs_exists", "fs_read">>]
                 ELSE [ok |-> FALSE, trace |-> <<"embedded_get", "fs_exists", "fs_read">>]
         ELSE [ok |-> FALSE, trace |-> <<"embedded_get", "fs_exists">>]

\* if file_path.exists() { read_to_string?; from_str? } else the embedded asset, else Err
ReadSource(file_path, resource_path) ==
    IF PathExists(file_path)
    THEN LET r == from_str(FileAt(file_path).text)
         IN IF r.ok
            THEN [ok |-> TRUE, value |-> r.value, trace |-> <<"fs_exists", "fs_read">>]
            ELSE [ok |-> FALSE, trace |-> <<"fs_exists", "fs_read">>]
    ELSE IF resource_path \in DOMAIN EmbeddedSchemas
         THEN LET r == from_str(EmbeddedSchemas[resource_path])
              IN IF r.ok
                 THEN [ok |-> TRUE, value |-> r.value,
                       trace |-> <<"fs_exists", "embedded_get">>]
                 ELSE [ok |-> FALSE, trace |-> <<"fs_exists", "embedded_get">>]
         ELSE [ok |-> FALSE, trace |-> <<"fs_exists", "embedded_get">>]

\* Path::new(&self.schema_root).join(domain).join(version).join(category).join(name.json)
FilePath(l, category, name) ==
    PathJoin(PathJoin(PathJoin(PathJoin(PathNew(l.schema_root), l.domain),
                               l.version), category), name \o ".json")
\* format!("{}/{}/{}/{}.json", self.domain, self.version, category, name)
ResourcePath(l, category, name) ==
    l.domain \o "/" \o l.version \o "/" \o category \o "/" \o name \o ".json"

load_schema_internal(l, category, name) ==
    ReadSource(FilePath(l, category, name), ResourcePath(l, category, name))

\* mutant: the cache is never looked up, every call goes to the sources
load_schema_uncached(l, category, name) ==
    LET cache_key == CacheKey(l, category, name)
        r == load_schema_internal(l, category, name)
    IN IF r.ok
       THEN [loader |-> [l EXCEPT !.schema_cache =
                            (cache_key :> r.value) @@ @],
             outcome |-> "ok", value |-> r.value, trace |-> r.trace]
       ELSE [loader |-> l, outcome |-> "panic", trace |-> r.trace]

\* the loader after the call, the outcome, the document and the sources consulted
load_schema(l, category, name) ==
    LET cache_key == CacheKey(l, category, name)
    IN IF cache_key \in DOMAIN l.schema_cache
       THEN [loader |-> l, outcome |-> "ok", value |-> l.schema_cache[cache_key],
             trace |-> <<>>]
       ELSE LET r == load_schema_internal(l, category, name)
            IN IF r.ok
               THEN [loader |-> [l EXCEPT !.schema_cache = (cache_key :> r.value) @@ @],
                     outcome |-> "ok", value |-> r.value, trace |-> r.trace]
               ELSE [loader |-> l, outcome |-> "panic", trace |-> r.trace]

\* mutant: the cache is left as it is
clear_cache_noop(l) == l
\* mutant: the documents are dropped but their keys stay
clear_cache_tombstone(l) == [l EXCEPT !.schema_cache = [k \in DOMAIN @ |-> JNull]]

\* mutant: the loader is reset as a whole, its version is forgotten
clear_cache_reset(l) == [l EXCEPT !.schema_cache = NoCache, !.version = ""]

clear_cache(l) == [l EXCEPT !.schema_cache = NoCache]

\* mutant: moving the loader drops what it has cached
set_schema_base_path_invalidates(l, schema_base_path) ==
    [l EXCEPT !.schema_root = schema_base_path, !.schema_cache = NoCache]

set_schema_base_path(l, schema_base_path) == [l EXCEPT !.schema_root = schema_base_path]

set_version_directory(l, version_directory) ==
    [l EXCEPT !.version = IF version_directory.some THEN version_directory.v ELSE ""]

load_schema_from_directory(l, domain, category, schema_name) ==
    LET domain_path == PathJoin(PathNew(l.schema_root), domain)
        found == FirstVersionDir(domain_path, readdir_order)
    IN IF l.version = "" /\ ~IsDir(domain_path)
       THEN [ok |-> FALSE, trace |-> <<"fs_exists">>]
       ELSE IF l.version = "" /\ ~found.some
       THEN [ok |-> FALSE, trace |-> <<"fs_exists", "fs_read_dir">>]
       ELSE LET version == IF l.version # "" THEN l.version ELSE found.v
                schema_path ==
                    PathJoin(PathJoin(PathJoin(PathJoin(PathNew(l.schema_root), domain),
                                               version), category), schema_name \o ".json")
                embedded_path ==
                    domain \o "/" \o version \o "/" \o category \o "/" \o schema_name \o ".json"
                r == ReadSource(schema_path, embedded_path)
            IN IF l.version # "" THEN r
               ELSE [r EXCEPT !.trace = <<"fs_exists", "fs_read_dir">> \o @]

\* mutant: a failed lookup is remembered in the cache as a null document
load_schema_by_directory_caches_failure(l, domain, category, schema_name) ==
    LET cache_key == DirCacheKey(domain, category, schema_name)
    IN IF cache_key \in DOMAIN l.schema_cache /\ l.schema_cache[cache_key] # JNull
       THEN [loader |-> l, result |-> Some(l.schema_cache[cache_key]), trace |-> <<>>]
       ELSE IF cache_key \in DOMAIN l.schema_cache
       THEN [loader |-> l, result |-> None, trace |-> <<>>]
       ELSE LET r == load_schema_from_directory(l, domain, category, schema_name)
            IN IF r.ok
               THEN [loader |-> [l EXCEPT !.schema_cache = (cache_key :> r.value) @@ @],
                     result |-> Some(r.value), trace |-> r.trace]
               ELSE [loader |-> [l EXCEPT !.schema_cache = (cache_key :> JNull) @@ @],
                     result |-> None, trace |-> r.trace]

load_schema_by_directory(l, domain, category, schema_name) ==
    LET cache_key == DirCacheKey(domain, category, schema_name)
    IN IF cache_key \in DOMAIN l.schema_cache
       THEN [loader |-> l, result |-> Some(l.schema_cache[cache_key]), trace |-> <<>>]
       ELSE LET r == load_schema_from_directory(l, domain, category, schema_name)
            IN IF r.ok
               THEN [loader |-> [l EXCEPT !.schema_cache = (cache_key :> r.value) @@ @],
                     result |-> Some(r.value), trace |-> r.trace]
               ELSE [loader |-> l, result |-> None, trace |-> r.trace]

\* format!("{}_{}", schema_id, version)
IdCacheKey(schema_id, version) == schema_id \o "_" \o version

\* file_name under the schema root, then the bundled asset of that name
load_schema_from_file(l, schema_id, version) ==
    LET file_name == schema_id \o "_" \o version \o ".json"
    IN ReadSource(PathJoin(PathNew(l.schema_root), file_name), file_name)

\* mutant: the cache is never looked up, the entry is written at every call
load_schema_by_id_uncached(l, schema_id, version) ==
    LET cache_key == IdCacheKey(schema_id, version)
        r == load_schema_from_file(l, schema_id, version)
    IN IF r.ok
       THEN [loader |-> [l EXCEPT !.schema_cache =
                            [k \in DOMAIN @ \cup {cache_key} |->
                                IF k = cache_key THEN r.value ELSE @[k]]],
             result |-> Some(r.value), trace |-> r.trace]
       ELSE [loader |-> l, result |-> None, trace |-> r.trace]

load_schema_by_id(l, schema_id, version) ==
    LET cache_key == IdCacheKey(schema_id, version)
    IN IF cache_key \in DOMAIN l.schema_cache
       THEN [loader |-> l, result |-> Some(l.schema_cache[cache_key]), trace |-> <<>>]
       ELSE LET r == load_schema_from_file(l, schema_id, version)
            IN IF r.ok
               THEN [loader |-> [l EXCEPT !.schema_cache = (cache_key :> r.value) @@ @],
                     result |-> Some(r.value), trace |-> r.trace]
               ELSE [loader |-> l, result |-> None, trace |-> r.trace]

(***************************************************************************)
(* Header, Envelope (model/) and Validator::validate (core/validator.rs)   *)
(***************************************************************************)
Header_with_auth(schema_version, schema_category, schema_name, content_type, auth_token) ==
    [schema_version |-> schema_version, schema_category |-> schema_category,
     schema_name |-> schema_name, content_type |-> content_type,
     auth_token |-> Some(auth_token)]

Header_new(schema_version, schema_category, schema_name) ==
    [schema_version |-> schema_version, schema_category |-> schema_category,
     schema_name |-> schema_name, content_type |-> None, auth_token |-> None]

Envelope_new(header, data) == [header |-> header, data |-> data, metadata |-> None]

Validator_new(schema_loader) == [schema_loader |-> schema_loader]

\* mutant: the checks are chained, the first empty field hides the others
HeaderErrors_first_only(header) ==
    IF header.schema_category = "" THEN <<"Schema category is required in header">>
    ELSE IF header.schema_name = "" THEN <<"Schema name is required in header">>
    ELSE IF header.schema_version = "" THEN <<"Schema version is required in header">>
    ELSE <<>>

\* the three independent header checks
HeaderErrors(header) ==
    (IF header.schema_category = ""
     THEN <<"Schema category is required in header">> ELSE <<>>)
    \o (IF header.schema_name = ""
        THEN <<"Schema name is required in header">> ELSE <<>>)
    \o (IF header.schema_version = ""
        THEN <<"Schema version is required in header">> ELSE <<>>)

\* mutant: the error is pushed but the function does not return there
HeaderRequired_fallthrough(v, header) ==
    [validator |-> v, outcome |-> "ok",
     result |-> ValidationResult_new(FALSE, <<"Header is required">> \o HeaderErrors(header)),
     trace |-> <<>>, lookups |-> 0, data_checked |-> FALSE]

\* errors.push("Header is required"); return ValidationResult::new(false, errors)
HeaderRequired(v, header) ==
    [validator |-> v, outcome |-> "ok",
     result |-> ValidationResult_new(FALSE, <<"Header is required">>),
     trace |-> <<>>, lookups |-> 0, data_checked |-> FALSE]

\* mutant: the schema is looked up under the version named by the header
validate_by_header_version(v, envelope) ==
    LET header == envelope.header
        versioned == [v.schema_loader EXCEPT !.version = header.schema_version]
    IN IF /\ header.schema_category = ""
          /\ header.schema_name = ""
          /\ header.schema_version = ""
       THEN HeaderRequired(v, header)
       ELSE IF header.schema_category # "" /\ header.schema_name # ""
       THEN LET r == load_schema(versioned, header.schema_category, header.schema_name)
            IN IF r.outcome = "panic"
               THEN [validator |-> v, outcome |-> "panic", trace |-> r.trace,
                     lookups |-> 1, data_checked |-> FALSE]
               ELSE LET errors == HeaderErrors(header)
                                    \o validate_data(envelope.data, r.value).errors
                    IN [validator |-> [v EXCEPT !.schema_loader.schema_cache =
                                                    r.loader.schema_cache],
                        outcome |-> "ok",
                        result |-> ValidationResult_new(Len(errors) = 0, errors),
                        trace |-> r.trace, lookups |-> 1, data_checked |-> TRUE]
       ELSE [validator |-> v, outcome |-> "ok",
             result |-> ValidationResult_new(Len(HeaderErrors(header)) = 0,
                                             HeaderErrors(header)),
             trace |-> <<>>, lookups |-> 0, data_checked |-> FALSE]

\* mutant: the data errors come first, the header errors are appended to them
validate_data_errors_first(v, envelope) ==
    LET header == envelope.header
    IN IF /\ header.schema_category = ""
          /\ header.schema_name = ""
          /\ header.schema_version = ""
       THEN HeaderRequired(v, header)
       ELSE IF header.schema_category # "" /\ header.schema_name # ""
       THEN LET r == load_schema(v.schema_loader, header.schema_category,
                                 header.schema_name)
            IN IF r.outcome = "panic"
               THEN [validator |-> v, outcome |-> "panic", trace |-> r.trace,
                     lookups |-> 1, data_checked |-> FALSE]
               ELSE LET errors == validate_data(envelope.data, r.value).errors
                                    \o HeaderErrors(header)
                    IN [validator |-> [v EXCEPT !.schema_loader = r.loader],
                        outcome |-> "ok",
                        result |-> ValidationResult_new(Len(errors) = 0, errors),
                        trace |-> r.trace, lookups |-> 1, data_checked |-> TRUE]
       ELSE [validator |-> v, outcome |-> "ok",
             result |-> ValidationResult_new(Len(HeaderErrors(header)) = 0,
                                             HeaderErrors(header)),
             trace |-> <<>>, lookups |-> 0, data_checked |-> FALSE]

\* the validator after the call, the outcome, the result, the sources consulted,
\* the number of schema lookups and whether validate_data ran
validate(v, envelope) ==
    LET header == envelope.header
    IN IF /\ header.schema_category = ""
          /\ header.schema_name = ""
          /\ header.schema_version = ""
       THEN HeaderRequired(v, header)
       ELSE IF header.schema_category # "" /\ header.schema_name # ""
       THEN LET r == load_schema(v.schema_loader, header.schema_category,
                                 header.schema_name)
            IN IF r.outcome = "panic"
               THEN [validator |-> v, outcome |-> "panic", trace |-> r.trace,
                     lookups |-> 1, data_checked |-> FALSE]
               ELSE LET errors == HeaderErrors(header)
                                    \o validate_data(envelope.data, r.value).errors
                    IN [validator |-> [v EXCEPT !.schema_loader = r.loader],
                        outcome |-> "ok",
                        result |-> ValidationResult_new(Len(errors) = 0, errors),
                        trace |-> r.trace, lookups |-> 1, data_checked |-> TRUE]
       ELSE [validator |-> v, outcome |-> "ok",
             result |-> ValidationResult_new(Len(HeaderErrors(header)) = 0,
                                             HeaderErrors(header)),
             trace |-> <<>>, lookups |-> 0, data_checked |-> FALSE]

(***************************************************************************)
(* PactsService (impl/service.rs)                                          *)
(***************************************************************************)
\* SchemaLoader::new, then a validator on a clone of the loader
PactsService_with_version(base_path, version_directory) ==
    LET schema_loader == SchemaLoader_new(base_path, "bees", version_directory)
    IN IF schema_loader.some
       THEN Some([validator |-> Validator_new(schema_loader.v),
                  schema_loader |-> schema_loader.v])
       ELSE None
PactsService_with_base_path(base_path) == PactsService_with_version(base_path, "v1")
PactsService_new == PactsService_with_base_path("schemas")

create_envelope_with_auth(schema_version, schema_category, schema_name, data, auth_token) ==
    Envelope_new(Header_with_auth(schema_version, schema_category, schema_name,
                                  Some("application/json"), auth_token),
                 data)

\* validates on a clone of the validator; the clone is dropped afterwards
service_validate(s, envelope) ==
    [validate(s.validator, envelope) EXCEPT !.validator = s.validator]

service_validate_data(s, data, category, schema_name) ==
    LET r == load_schema(s.schema_loader, category, schema_name)
    IN IF r.outcome = "panic"
       THEN [service |-> s, outcome |-> "panic", trace |-> r.trace]
       ELSE [service |-> [s EXCEPT !.schema_loader = r.loader], outcome |-> "ok",
             result |-> validate_data(data, r.value), trace |-> r.trace]

\* the RefCell<SchemaLoader> cells a service call touches: the service's own,
\* the one inside the shared validator, the one inside the validator's clone
ServiceCell == "service.schema_loader"
ValidatorCell == "service.validator.schema_loader"
CloneCell == "validator.schema_loader"
Cells == {ServiceCell, ValidatorCell, CloneCell}

Borrow(cell) == [kind |-> "borrow", cell |-> cell]
BorrowMut(cell) == [kind |-> "borrow_mut", cell |-> cell]
Drop(cell) == [kind |-> "drop", cell |-> cell]

\* the borrow flag of a RefCell: 0 unused, n > 0 shared n times, -1 exclusive
Unused == [c \in Cells |-> 0]

\* borrow panics when the cell is mutably borrowed, borrow_mut when it is
\* borrowed at all; dropping the guard gives the borrow back
RECURSIVE already_borrowed(_, _)
already_borrowed(events, flags) ==
    IF events = <<>>
    THEN FALSE
    ELSE LET e == Head(events)
             flag == flags[e.cell]
         IN CASE e.kind = "borrow" ->
                   IF flag < 0
                   THEN TRUE
                   ELSE already_borrowed(Tail(events), [flags EXCEPT ![e.cell] = flag + 1])
              [] e.kind = "borrow_mut" ->
                   IF flag # 0
                   THEN TRUE
                   ELSE already_borrowed(Tail(events), [flags EXCEPT ![e.cell] = -1])
              [] OTHER ->
                   already_borrowed(Tail(events),
                       [flags EXCEPT ![e.cell] = IF flag < 0 THEN 0 ELSE flag - 1])

\* #[derive(Clone)] on Validator: RefCell::clone borrows the cell to copy it
RefCell_clone(cell) == <<Borrow(cell), Drop(cell)>>

\* Validator::validate: the RefMut is a temporary of the let statement
validate_borrows(envelope) ==
    IF envelope.header.schema_category # "" /\ envelope.header.schema_name # ""
    THEN <<BorrowMut(CloneCell), Drop(CloneCell)>>
    ELSE <<>>

service_validate_borrows(envelope) == RefCell_clone(ValidatorCell) \o validate_borrows(envelope)

\* mutant: the validator shares the service's cell instead of owning a copy
service_validate_data_borrows_shared ==
    <<BorrowMut(ServiceCell)>> \o RefCell_clone(ServiceCell) \o <<Drop(ServiceCell)>>

\* the RefMut is a temporary of the match scrutinee: it lives until the match
\* ends, across the clone of the validator and its validate_data
service_validate_data_borrows ==
    <<BorrowMut(ServiceCell)>> \o RefCell_clone(ValidatorCell) \o <<Drop(ServiceCell)>>

\* sender_borrows: what the sender closure does to the cells when it is called
send_validated_data_borrows(envelope, valid, sender_borrows) ==
    service_validate_borrows(envelope) \o (IF valid THEN sender_borrows ELSE <<>>)

Ok(v) == [ok |-> TRUE, v |-> v]
Err(e) == [ok |-> FALSE, e |-> e]

\* mutant: the sender is called whatever the validation says
send_validated_data_always_sends(s, schema_version, schema_category, schema_name, data, auth_token, sender_result) ==
    LET envelope == create_envelope_with_auth(schema_version, schema_category,
                                              schema_name, data, auth_token)
        r == service_validate(s, envelope)
    IN IF r.outcome = "panic"
       THEN [outcome |-> "panic", validation |-> None, sent |-> <<>>, trace |-> r.trace]
       ELSE [outcome |-> "ok", validation |-> Some(r.result), sent |-> <<envelope>>,
             result |-> sender_result, trace |-> r.trace]

\* mutant: the envelope is validated, then built again for the sender after
\* the data has been moved out of it
send_validated_data_rebuilds(s, schema_version, schema_category, schema_name, data, auth_token, sender_result) ==
    LET envelope == create_envelope_with_auth(schema_version, schema_category,
                                              schema_name, data, auth_token)
        rebuilt == create_envelope_with_auth(schema_version, schema_category,
                                             schema_name, JNull, auth_token)
        r == service_validate(s, envelope)
    IN IF r.outcome = "panic"
       THEN [outcome |-> "panic", validation |-> None, sent |-> <<>>, trace |-> r.trace]
       ELSE IF r.result.valid
       THEN [outcome |-> "ok", validation |-> Some(r.result), sent |-> <<rebuilt>>,
             result |-> sender_result, trace |-> r.trace]
       ELSE [outcome |-> "ok", validation |-> Some(r.result), sent |-> <<>>,
             result |-> Err("Validation failed: " \o error_message(r.result)),
             trace |-> r.trace]

\* sender_result: what the sender closure returns when it is called
send_validated_data(s, schema_version, schema_category, schema_name, data, auth_token, sender_result) ==
    LET envelope == create_envelope_with_auth(schema_version, schema_category,
                                              schema_name, data, auth_token)
        r == service_validate(s, envelope)
    IN IF r.outcome = "panic"
       THEN [outcome |-> "panic", validation |-> None, sent |-> <<>>, trace |-> r.trace]
       ELSE IF r.result.valid
       THEN [outcome |-> "ok", validation |-> Some(r.result), sent |-> <<envelope>>,
             result |-> sender_result, trace |-> r.trace]
       ELSE [outcome |-> "ok", validation |-> Some(r.result), sent |-> <<>>,
             result |-> Err("Validation failed: " \o error_message(r.result)),
             trace |-> r.trace]

(***************************************************************************)
(* Inputs                                                                  *)
(***************************************************************************)
Envelopes ==
    { Envelope_new(Header_new(v, c, n), d) :
        v \in {"", "v1", "v2"}, c \in {"", "inventory"},
        n \in {"", "inventory_item", "ghost"}, d \in DataValues }

\* payloads of the service calls
ServiceData == { JObj(NoFields), JObj([k \in {"id"} |-> JStr("1")]) }

ServiceEnvelopes ==
    { Envelope_new(Header_new(v, c, n), d) :
        v \in {"", "v1"}, c \in {"", "inventory"}, n \in {"", "inventory_item", "ghost"},
        d \in ServiceData }

\* a schema with the single key k
Schema1(k, v) == JObj([x \in {k} |-> v])
\* a schema with the two keys "type" and k
Schema2(t, k, v) == JObj([x \in {"type", k} |-> IF x = "type" THEN JStr(t) ELSE v])

\* {"type":"object","properties":{"name":{"type":"string"},
\*    "slot":{"type":"object","required":["id"],"properties":{"id":{"type":"string"}}}}}
SchemaNested ==
    Schema2("object", "properties",
            JObj([p \in {"name", "slot"} |->
                    IF p = "name" THEN Schema1("type", JStr("string")) ELSE SchemaA]))

\* {"type":"array","required":["name","id"],
\*    "properties":{"id":{"type":"string"},"slot":{"type":"object"}}}
SchemaThreeChecks ==
    JObj([k \in {"type", "required", "properties"} |->
            CASE k = "type" -> JStr("array")
              [] k = "required" -> JArr(<<JStr("name"), JStr("id")>>)
              [] k = "properties" ->
                   JObj([p \in {"id", "slot"} |->
                           Schema1("type", JStr(IF p = "id" THEN "string" ELSE "object"))])])

\* the schemas given to validate_data: well-formed ones, one per declared type,
\* an unknown type, and malformed parts
StructuralSchemas ==
    { SchemaA, SchemaNested, SchemaThreeChecks }
    \cup { Schema1("type", JStr(t)) :
             t \in {"object", "array", "string", "number", "boolean", "null", "integer"} }
    \cup { Schema1("type", JNum(1)),
           Schema1("required", JArr(<<JStr("id"), JStr("name"), JNum(1), JStr("id")>>)),
           Schema1("required", JStr("id")),
           Schema1("properties", JArr(<<>>)),
           Schema1("properties", Schema1("id", JStr("string"))),
           Schema1("properties", Schema1("id", Schema1("type", JNum(1)))),
           Schema1("properties", Schema1("id", Schema1("type", JStr("integer")))),
           JArr(<<JStr("required")>>), JStr("type"), JNull }

\* the payloads given to validate_data: every kind of value, and objects with
\* present, absent, ill-typed and nested fields
StructuralData ==
    DataValues
    \cup { JStr("text"), JNum(1), JBool(TRUE), JNull,
           JObj([k \in {"id", "name"} |-> JStr("n")]),
           JObj([k \in {"slot"} |-> JObj(NoFields)]),
           JObj([k \in {"slot"} |-> JObj([f \in {"id"} |-> JNum(1)])]),
           JObj([k \in {"slot"} |-> JStr("x")]),
           JObj([k \in {"id", "slot"} |-> IF k = "id" THEN JNum(1) ELSE JStr("x")]),
           JObj([k \in {"id"} |-> JNull]),
           JObj([k \in {"name", "slot"} |-> IF k = "name" THEN JNum(1) ELSE JObj(NoFields)]) }

ErrorLists == { <<>>, <<"Error 1">>, <<"Error 1", "Error 2">> }

SenderResults == { Ok("Sent successfully"), Err("connection refused") }

\* a sender that leaves the loader alone, reads it, or writes to it through
\* PactsService::schema_loader()
SenderBorrows ==
    { <<>>,
      <<Borrow(ServiceCell), Drop(ServiceCell)>>,
      <<BorrowMut(ServiceCell), Drop(ServiceCell)>> }

\* the sender closures: one that fails, and successful ones for each use of
\* the loader
Senders ==
    { [result |-> sr, borrows |-> <<>>] : sr \in SenderResults }
      \cup { [result |-> Ok("Sent successfully"), borrows |-> sb] : sb \in SenderBorrows }

NoHistory == [k \in {} |-> None]

NoObject == loader = None /\ validator = None /\ service = None

(***************************************************************************)
(* Initial state: nothing constructed, any content of the local files      *)
(***************************************************************************)
Init ==
    /\ fs \in [FsPaths -> FileStates]
    /\ readdir_order = <<"v1", "v2">>
    /\ fs_writes = 0
    /\ loader = None
    /\ validator = None
    /\ service = None
    /\ panicked = FALSE
    /\ last = [op |-> "init"]
    /\ first_loaded = NoHistory
    /\ dir_loaded = NoHistory
    /\ cleared_keys = NoHistory
    /\ ever_populated = FALSE

\* the local files of a deployment that also keeps a flat <id>_<version>.json
LegacyFsPaths ==
    { <<"schemas", "bees", "v1", "inventory", "inventory_item.json">>,
      <<"schemas", "bees_inventory_inventory_item.json">> }

\* the files of such a deployment may also be empty
TextEmpty == ""
LegacyFileStates == FileStates \cup {File(TextEmpty)}

InitLegacy ==
    /\ fs \in [LegacyFsPaths -> LegacyFileStates]
    /\ readdir_order = <<"v1", "v2">>
    /\ fs_writes = 0
    /\ loader = None
    /\ validator = None
    /\ service = None
    /\ panicked = FALSE
    /\ last = [op |-> "init"]
    /\ first_loaded = NoHistory
    /\ dir_loaded = NoHistory
    /\ cleared_keys = NoHistory
    /\ ever_populated = FALSE

(***************************************************************************)
(* Environment: the local schema files change under the running program    *)
(***************************************************************************)
SourceChanged == [k \in DOMAIN dir_loaded |-> [dir_loaded[k] EXCEPT !.clean = FALSE]]

FsWrite(p, st) ==
    /\ ~panicked
    /\ fs_writes < MaxFsWrites
    /\ fs[p] # st
    /\ fs' = [fs EXCEPT ![p] = st]
    /\ fs_writes' = fs_writes + 1
    /\ last' = [op |-> "fs_write"]
    /\ dir_loaded' = SourceChanged
    /\ UNCHANGED <<readdir_order, loader, validator, service, panicked, first_loaded,
                   ever_populated, cleared_keys>>

FsReorder ==
    /\ ~panicked
    /\ fs_writes < MaxFsWrites
    /\ readdir_order' = <<readdir_order[2], readdir_order[1]>>
    /\ fs_writes' = fs_writes + 1
    /\ last' = [op |-> "fs_reorder"]
    /\ dir_loaded' = SourceChanged
    /\ UNCHANGED <<fs, loader, validator, service, panicked, first_loaded, ever_populated, cleared_keys>>

\* a deployment with a second schema root
RelocateRoots == {"schemas", "other"}
RelocateFsPaths ==
    { <<r, "bees", v, "inventory", "inventory_item.json">> :
        r \in RelocateRoots, v \in {"v1", "v2"} }
      \ { <<"other", "bees", "v2", "inventory", "inventory_item.json">> }

InitRelocate ==
    /\ fs \in [RelocateFsPaths -> FileStates]
    /\ readdir_order = <<"v1", "v2">>
    /\ fs_writes = 0
    /\ loader = None
    /\ validator = None
    /\ service = None
    /\ panicked = FALSE
    /\ last = [op |-> "init"]
    /\ first_loaded = NoHistory
    /\ dir_loaded = NoHistory
    /\ cleared_keys = NoHistory
    /\ ever_populated = FALSE

(***************************************************************************)
(* SchemaLoader operations                                                 *)
(***************************************************************************)
New(schema_root, domain, version) ==
    /\ ~panicked /\ NoObject
    /\ loader' = SchemaLoader_new(schema_root, domain, version)
    /\ panicked' = ~loader'.some
    /\ last' = [op |-> "new", schema_root |-> schema_root, domain |-> domain,
                version |-> version,
                outcome |-> IF loader'.some THEN "ok" ELSE "panic", trace |-> <<>>]
    /\ UNCHANGED <<fs, readdir_order, fs_writes, validator, service, first_loaded,
                   dir_loaded, ever_populated, cleared_keys>>

WithBasePath(schema_base_path) ==
    /\ ~panicked /\ NoObject
    /\ loader' = Some(with_base_path(schema_base_path))
    /\ last' = [op |-> "with_base_path", outcome |-> "ok", trace |-> <<>>]
    /\ UNCHANGED <<fs, readdir_order, fs_writes, validator, service, panicked,
                   first_loaded, dir_loaded, ever_populated, cleared_keys>>

WithVersion(schema_base_path, version_directory) ==
    /\ ~panicked /\ NoObject
    /\ loader' = Some(with_version(schema_base_path, version_directory))
    /\ last' = [op |-> "with_version", outcome |-> "ok", trace |-> <<>>]
    /\ UNCHANGED <<fs, readdir_order, fs_writes, validator, service, panicked,
                   first_loaded, dir_loaded, ever_populated, cleared_keys>>

LoadSchema(category, name) ==
    /\ ~panicked /\ loader.some
    /\ \E r \in {load_schema(loader.v, category, name)} :
          /\ loader' = Some(r.loader)
          /\ panicked' = (r.outcome = "panic")
          /\ last' = [op |-> "load_schema", category |-> category, name |-> name,
                      outcome |-> r.outcome,
                      value |-> IF r.outcome = "ok" THEN Some(r.value) ELSE None,
                      trace |-> r.trace]
          /\ first_loaded' =
                IF r.outcome = "ok" /\ <<category, name>> \notin DOMAIN first_loaded
                THEN (<<category, name>> :>
                        [version |-> loader.v.version, doc |-> r.value]) @@ first_loaded
                ELSE first_loaded
          /\ cleared_keys' =
                IF <<category, name>> \in DOMAIN cleared_keys
                THEN [cleared_keys EXCEPT ![<<category, name>>] = FALSE]
                ELSE cleared_keys
          /\ ever_populated' = (ever_populated \/ r.loader # loader.v)
    /\ UNCHANGED <<fs, readdir_order, fs_writes, validator, service, dir_loaded>>

LoadSchemaByDirectory(domain, category, schema_name) ==
    /\ ~panicked /\ loader.some
    /\ \E r \in {load_schema_by_directory(loader.v, domain, category, schema_name)},
          k \in {<<domain, category, schema_name>>} :
          /\ loader' = Some(r.loader)
          /\ last' = [op |-> "load_schema_by_directory", domain |-> domain,
                      category |-> category, name |-> schema_name,
                      outcome |-> "ok", result |-> r.result, trace |-> r.trace]
          /\ dir_loaded' =
                IF r.result.some /\ r.trace # <<>>
                THEN (k :> [doc |-> r.result.v, clean |-> TRUE, cleared |-> FALSE,
                            reloaded |-> /\ k \in DOMAIN dir_loaded
                                         /\ dir_loaded[k].clean
                                         /\ dir_loaded[k].cleared])
                        @@ dir_loaded
                ELSE dir_loaded
          /\ ever_populated' = (ever_populated \/ r.loader # loader.v)
    /\ UNCHANGED <<fs, readdir_order, fs_writes, validator, service, panicked,
                   first_loaded, cleared_keys>>

LoadSchemaById(schema_id, version) ==
    /\ ~panicked /\ loader.some
    /\ \E r \in {load_schema_by_id(loader.v, schema_id, version)} :
          /\ loader' = Some(r.loader)
          /\ last' = [op |-> "load_schema_by_id", schema_id |-> schema_id,
                      version |-> version, outcome |-> "ok", result |-> r.result,
                      trace |-> r.trace]
          /\ ever_populated' = (ever_populated \/ r.loader # loader.v)
    /\ UNCHANGED <<fs, readdir_order, fs_writes, validator, service, panicked,
                   first_loaded, dir_loaded, cleared_keys>>

ClearCache ==
    /\ ~panicked /\ loader.some
    /\ loader' = Some(clear_cache(loader.v))
    /\ last' = [op |-> "clear_cache", outcome |-> "ok", trace |-> <<>>]
    /\ first_loaded' = NoHistory
    /\ dir_loaded' = [k \in DOMAIN dir_loaded |-> [dir_loaded[k] EXCEPT !.cleared = TRUE]]
    /\ cleared_keys' = [k \in DOMAIN cleared_keys \cup DOMAIN first_loaded |-> TRUE]
    /\ UNCHANGED <<fs, readdir_order, fs_writes, validator, service, panicked,
                   ever_populated>>

SetVersionDirectory(version_directory) ==
    /\ ~panicked /\ loader.some
    /\ loader' = Some(set_version_directory(loader.v, version_directory))
    /\ last' = [op |-> "set_version_directory", outcome |-> "ok", trace |-> <<>>]
    /\ dir_loaded' = SourceChanged
    /\ UNCHANGED <<fs, readdir_order, fs_writes, validator, service, panicked,
                   first_loaded, ever_populated, cleared_keys>>

SetSchemaBasePath(schema_base_path) ==
    /\ ~panicked /\ loader.some
    /\ loader' = Some(set_schema_base_path(loader.v, schema_base_path))
    /\ last' = [op |-> "set_schema_base_path", schema_base_path |-> schema_base_path,
                outcome |-> "ok", trace |-> <<>>]
    /\ dir_loaded' = SourceChanged
    /\ UNCHANGED <<fs, readdir_order, fs_writes, validator, service, panicked,
                   first_loaded, ever_populated, cleared_keys>>

(***************************************************************************)
(* ValidationResult constructors and Validator operations                  *)
(***************************************************************************)
ResultNew(valid, errors) ==
    /\ ~panicked /\ NoObject
    /\ last' = [op |-> "ValidationResult::new", outcome |-> "ok",
                result |-> ValidationResult_new(valid, errors), trace |-> <<>>]
    /\ UNCHANGED <<fs, readdir_order, fs_writes, loader, validator, service, panicked,
                   first_loaded, dir_loaded, ever_populated, cleared_keys>>

ResultSuccess ==
    /\ ~panicked /\ NoObject
    /\ last' = [op |-> "ValidationResult::success", outcome |-> "ok",
                result |-> ValidationResult_success, trace |-> <<>>]
    /\ UNCHANGED <<fs, readdir_order, fs_writes, loader, validator, service, panicked,
                   first_loaded, dir_loaded, ever_populated, cleared_keys>>

ResultFailure(errors) ==
    /\ ~panicked /\ NoObject
    /\ last' = [op |-> "ValidationResult::failure", outcome |-> "ok",
                result |-> ValidationResult_failure(errors), trace |-> <<>>]
    /\ UNCHANGED <<fs, readdir_order, fs_writes, loader, validator, service, panicked,
                   first_loaded, dir_loaded, ever_populated, cleared_keys>>

\* Validator::new(schema_loader): the loader moves into the validator
ValidatorNew ==
    /\ ~panicked /\ loader.some
    /\ validator' = Some(Validator_new(loader.v))
    /\ loader' = None
    /\ last' = [op |-> "Validator::new", outcome |-> "ok", trace |-> <<>>]
    /\ UNCHANGED <<fs, readdir_order, fs_writes, service, panicked, first_loaded,
                   dir_loaded, ever_populated, cleared_keys>>

Validate(envelope) ==
    /\ ~panicked /\ validator.some
    /\ \E r \in {validate(validator.v, envelope)} :
          /\ validator' = Some(r.validator)
          /\ panicked' = (r.outcome = "panic")
          /\ last' = [op |-> "validate", envelope |-> envelope, outcome |-> r.outcome,
                      result |-> IF r.outcome = "ok" THEN Some(r.result) ELSE None,
                      trace |-> r.trace, lookups |-> r.lookups,
                      data_checked |-> r.data_checked]
    /\ UNCHANGED <<fs, readdir_order, fs_writes, loader, service, first_loaded,
                   dir_loaded, ever_populated, cleared_keys>>

ValidateData(data, schema) ==
    /\ ~panicked /\ validator.some
    /\ last' = [op |-> "validate_data", data |-> data, schema |-> schema,
                outcome |-> "ok", result |-> Some(validate_data(data, schema)),
                trace |-> <<>>]
    /\ UNCHANGED <<fs, readdir_order, fs_writes, loader, validator, service, panicked,
                   first_loaded, dir_loaded, ever_populated, cleared_keys>>

(***************************************************************************)
(* PactsService operations                                                 *)
(***************************************************************************)
ServiceNew ==
    /\ ~panicked /\ NoObject
    /\ service' = PactsService_new
    /\ last' = [op |-> "PactsService::new", outcome |-> "ok", trace |-> <<>>]
    /\ UNCHANGED <<fs, readdir_order, fs_writes, loader, validator, panicked,
                   first_loaded, dir_loaded, ever_populated, cleared_keys>>

ServiceWithVersion(base_path, version_directory) ==
    /\ ~panicked /\ NoObject
    /\ service' = PactsService_with_version(base_path, version_directory)
    /\ panicked' = ~service'.some
    /\ last' = [op |-> "PactsService::with_version",
                outcome |-> IF service'.some THEN "ok" ELSE "panic", trace |-> <<>>]
    /\ UNCHANGED <<fs, readdir_order, fs_writes, loader, validator, first_loaded,
                   dir_loaded, ever_populated, cleared_keys>>

ServiceValidate(envelope) ==
    /\ ~panicked /\ service.some
    /\ \E r \in {service_validate(service.v, envelope)},
          b \in {already_borrowed(service_validate_borrows(envelope), Unused)} :
          /\ service' = Some([service.v EXCEPT !.validator = r.validator])
          /\ panicked' = (b \/ r.outcome = "panic")
          /\ last' = [op |-> "service_validate", envelope |-> envelope,
                      already_borrowed |-> b,
                      outcome |-> IF b THEN "panic" ELSE r.outcome,
                      result |-> IF ~b /\ r.outcome = "ok" THEN Some(r.result) ELSE None,
                      trace |-> r.trace, lookups |-> r.lookups,
                      data_checked |-> r.data_checked]
    /\ UNCHANGED <<fs, readdir_order, fs_writes, loader, validator, first_loaded,
                   dir_loaded, ever_populated, cleared_keys>>

ServiceValidateData(data, category, schema_name) ==
    /\ ~panicked /\ service.some
    /\ \E r \in {service_validate_data(service.v, data, category, schema_name)},
          b \in {already_borrowed(service_validate_data_borrows, Unused)} :
          /\ service' = Some(r.service)
          /\ panicked' = (b \/ r.outcome = "panic")
          /\ last' = [op |-> "service_validate_data", data |-> data,
                      category |-> category, name |-> schema_name,
                      already_borrowed |-> b,
                      outcome |-> IF b THEN "panic" ELSE r.outcome,
                      result |-> IF ~b /\ r.outcome = "ok" THEN Some(r.result) ELSE None,
                      trace |-> r.trace]
    /\ UNCHANGED <<fs, readdir_order, fs_writes, loader, validator, first_loaded,
                   dir_loaded, ever_populated, cleared_keys>>

SendValidatedData(schema_version, schema_category, schema_name, data, sender_result, sender_borrows) ==
    /\ ~panicked /\ service.some
    /\ \E r \in {send_validated_data(service.v, schema_version, schema_category,
                                       schema_name, data, "token", sender_result)} :
       \E b \in {already_borrowed(
                    send_validated_data_borrows(
                       create_envelope_with_auth(schema_version, schema_category,
                                                 schema_name, data, "token"),
                       r.outcome = "ok" /\ r.sent # <<>>, sender_borrows),
                    Unused)} :
          /\ panicked' = (b \/ r.outcome = "panic")
          /\ last' = [op |-> "send_validated_data",
                      already_borrowed |-> b,
                      outcome |-> IF b THEN "panic" ELSE r.outcome,
                      sender_borrows |-> sender_borrows,
                      schema_version |-> schema_version, category |-> schema_category,
                      name |-> schema_name, data |-> data,
                      validation |-> r.validation, sent |-> r.sent,
                      sender_result |-> sender_result,
                      result |-> IF ~b /\ r.outcome = "ok" THEN Some(r.result) ELSE None,
                      trace |-> r.trace]
    /\ UNCHANGED <<fs, readdir_order, fs_writes, loader, validator, service,
                   first_loaded, dir_loaded, ever_populated, cleared_keys>>

(***************************************************************************)
(* Specification                                                           *)
(***************************************************************************)
Environment ==
    \/ \E p \in DOMAIN fs, st \in FileStates : FsWrite(p, st)
    \/ FsReorder

LoaderConstruct ==
    \/ \E r \in Roots \cup {""}, d \in Domains \cup {""}, v \in {"v1", ""} : New(r, d, v)
    \/ \E r \in Roots : WithBasePath(r)
    \/ \E r \in Roots, v \in {"v1"} : WithVersion(r, v)

LoaderUse ==
    \/ \E c \in Categories, n \in Names : LoadSchema(c, n)
    \/ \E d \in Domains, c \in Categories, n \in Names : LoadSchemaByDirectory(d, c, n)
    \/ ClearCache
    \/ \E v \in {None} \cup {Some(x) : x \in Versions} : SetVersionDirectory(v)

ValidatorStep ==
    \/ \E valid \in BOOLEAN, errors \in ErrorLists : ResultNew(valid, errors)
    \/ ResultSuccess
    \/ \E errors \in ErrorLists : ResultFailure(errors)
    \/ ValidatorNew
    \/ \E e \in Envelopes : Validate(e)
    \/ \E d \in DataValues, sc \in {SchemaA, SchemaB, SchemaEmb} : ValidateData(d, sc)

ServiceStep ==
    \/ ServiceNew
    \/ \E r \in Roots \cup {""}, v \in {"v1", "v2"} : ServiceWithVersion(r, v)
    \/ \E e \in ServiceEnvelopes : ServiceValidate(e)
    \/ \E d \in ServiceData, c \in Categories, n \in Names : ServiceValidateData(d, c, n)
    \/ \E v \in {"", "v1"}, c \in {"", "inventory"}, n \in {"", "inventory_item", "ghost"},
          d \in ServiceData, sender \in Senders :
             SendValidatedData(v, c, n, d, sender.result, sender.borrows)

\* a SchemaLoader used directly, on a changing filesystem
NextLoader == Environment \/ LoaderConstruct \/ LoaderUse
SpecLoader == Init /\ [][NextLoader]_vars

\* a SchemaLoader used through its deprecated lookups as well
LegacyUse ==
    \E id \in {"bees_inventory"}, v \in {"inventory_item", "ghost"} : LoadSchemaById(id, v)

NextLegacy == Environment \/ LoaderConstruct \/ LoaderUse \/ LegacyUse
SpecLegacy == InitLegacy /\ [][NextLegacy]_vars

\* a SchemaLoader that is moved to another root or version while in use
RelocateUse ==
    \/ \E c \in Categories, n \in Names : LoadSchema(c, n)
    \/ ClearCache
    \/ \E v \in {None} \cup {Some(x) : x \in Versions} : SetVersionDirectory(v)
    \/ \E r \in RelocateRoots : SetSchemaBasePath(r)

NextRelocate == LoaderConstruct \/ RelocateUse
SpecRelocate == InitRelocate /\ [][NextRelocate]_vars

\* a Validator that owns its SchemaLoader
NextValidator == Environment \/ LoaderConstruct \/ ValidatorStep
SpecValidator == Init /\ [][NextValidator]_vars

\* Validator::validate_data as a function of its two arguments
StructuralStep ==
    \/ ValidatorNew
    \/ \E d \in StructuralData, sc \in StructuralSchemas : ValidateData(d, sc)

NextStructural == LoaderConstruct \/ StructuralStep
SpecStructural == Init /\ [][NextStructural]_vars

\* a PactsService
NextService == Environment \/ ServiceStep
SpecService == Init /\ [][NextService]_vars

(***************************************************************************)
(* Properties                                                              *)
(***************************************************************************)
IsJsonText(text) == text \in DOMAIN JsonTexts

\* C1: validate of an envelope with non-empty category and name for which no
\* source (and no cache entry) holds a schema returns an invalid result with a
\* single schema-not-found error, and validate_data is not run.
C1_SchemaNotFoundIsReported ==
    (/\ last.op = "validate"
     /\ last.envelope.header.schema_category # ""
     /\ last.envelope.header.schema_name # ""
     /\ LET l == validator.v.schema_loader
            c == last.envelope.header.schema_category
            n == last.envelope.header.schema_name
        IN /\ ~PathExists(FilePath(l, c, n))
           /\ ResourcePath(l, c, n) \notin DOMAIN EmbeddedSchemas
           /\ CacheKey(l, c, n) \notin DOMAIN l.schema_cache)
    => /\ last.outcome = "ok"
       /\ last.result.some
       /\ ~last.result.v.valid
       /\ Len(last.result.v.errors) = 1
       /\ ~last.data_checked

\* C2 (as stated): once load_schema(category, name) has succeeded, every later
\* load_schema(category, name) before the next clear_cache returns the first
\* document and consults no source.
C2_LoadedOnceIsStable ==
    [][(/\ last'.op = "load_schema"
        /\ <<last'.category, last'.name>> \in DOMAIN first_loaded)
       => /\ last'.outcome = "ok"
          /\ last'.value = Some(first_loaded[<<last'.category, last'.name>>].doc)
          /\ last'.trace = <<>>]_vars

\* C2 (amended): the same, for the later calls made while the loader's version
\* is the version of the first load.
C2_LoadedOnceIsStableForVersion ==
    [][(/\ last'.op = "load_schema"
        /\ <<last'.category, last'.name>> \in DOMAIN first_loaded
        /\ loader.v.version = first_loaded[<<last'.category, last'.name>>].version)
       => /\ last'.outcome = "ok"
          /\ last'.value = Some(first_loaded[<<last'.category, last'.name>>].doc)
          /\ last'.trace = <<>>
          /\ loader' = loader]_vars

\* a cache hit of load_schema that returned a document the sources no longer give
C2_Witness ==
    /\ last.op = "load_schema"
    /\ last.outcome = "ok"
    /\ last.trace = <<>>
    /\ LET now == load_schema_internal(loader.v, last.category, last.name)
       IN ~now.ok \/ now.value # last.value.v

C4_ReloadAfterClearIsEqual ==
    [][(/\ last'.op = "load_schema_by_directory"
        /\ <<last'.domain, last'.category, last'.name>> \in DOMAIN dir_loaded
        /\ dir_loaded[<<last'.domain, last'.category, last'.name>>].clean
        /\ dir_loaded[<<last'.domain, last'.category, last'.name>>].cleared)
       => last'.result
            = Some(dir_loaded[<<last'.domain, last'.category, last'.name>>].doc)]_vars

C4_Witness ==
    /\ last.op = "load_schema_by_directory"
    /\ last.result.some
    /\ <<last.domain, last.category, last.name>> \in DOMAIN dir_loaded
    /\ dir_loaded[<<last.domain, last.category, last.name>>].reloaded

HeaderAllEmpty(header) ==
    header.schema_category = "" /\ header.schema_name = "" /\ header.schema_version = ""

\* C5: validate with an entirely empty header returns exactly the one error
\* "Header is required" and does not touch the loader.
C5_EmptyHeaderShortCircuits ==
    [][(last'.op = "validate" /\ HeaderAllEmpty(last'.envelope.header))
       => /\ last'.outcome = "ok"
          /\ last'.result = Some([valid |-> FALSE, errors |-> <<"Header is required">>])
          /\ last'.lookups = 0
          /\ last'.trace = <<>>
          /\ validator' = validator]_vars

C5_Witness ==
    /\ last.op = "validate"
    /\ HeaderAllEmpty(last.envelope.header)
    /\ last.result.some
    /\ validator.v.schema_loader.schema_cache # NoCache

Consistent(result) == result.valid = (Len(result.errors) = 0)

\* C6 (as stated): every ValidationResult, however obtained, has
\* valid = errors.is_empty().
C6_EveryResultConsistent ==
    /\ last.op \in {"ValidationResult::new", "ValidationResult::success",
                    "ValidationResult::failure"} => Consistent(last.result)
    /\ (last.op \in {"validate", "validate_data"} /\ last.result.some)
         => Consistent(last.result.v)

\* C6 (amended): the results returned by validate and validate_data, and the
\* one built by success, have valid = errors.is_empty().
C6_ReturnedResultsConsistent ==
    /\ last.op = "ValidationResult::success" => Consistent(last.result)
    /\ (last.op \in {"validate", "validate_data"} /\ last.result.some)
         => Consistent(last.result.v)

C6_Witness ==
    /\ last.op = "validate_data"
    /\ ~last.result.v.valid
    /\ Len(last.result.v.errors) > 0

\* C7: send_validated_data calls the sender exactly once and returns its result
\* when the validation is valid; otherwise the sender is not called and the
\* call returns Err("Validation failed: " + the errors joined by "; ").
C7_SendOnlyWhenValid ==
    (last.op = "send_validated_data" /\ last.outcome = "ok")
    => IF last.validation.v.valid
       THEN Len(last.sent) = 1 /\ last.result = Some(last.sender_result)
       ELSE /\ Len(last.sent) = 0
            /\ last.result =
                 Some(Err("Validation failed: " \o Join(last.validation.v.errors, "; ")))

C7_Witness ==
    /\ last.op = "send_validated_data"
    /\ last.outcome = "ok"
    /\ Len(last.validation.v.errors) = 2
    /\ last.result =
         Some(Err("Validation failed: Schema category is required in header; Schema version is required in header"))

\* C8: load_schema resolves from the local file first: when it exists and parses
\* its document is returned and the bundled assets are not consulted; the
\* bundled asset is consulted only when no local file exists.
C8_LocalFileFirst ==
    (last.op = "load_schema" /\ last.trace # <<>>)
    => LET file == FileAt(FilePath(loader.v, last.category, last.name))
       IN /\ (file.exists /\ IsJsonText(file.text))
               => /\ last.value = Some(JsonTexts[file.text])
                  /\ \A i \in 1..Len(last.trace) : last.trace[i] # "embedded_get"
          /\ (\E i \in 1..Len(last.trace) : last.trace[i] = "embedded_get")
               => ~file.exists

\* a local file overrides a bundled asset of the same coordinates
C8_Witness ==
    /\ last.op = "load_schema"
    /\ last.trace # <<>>
    /\ PathExists(FilePath(loader.v, last.category, last.name))
    /\ ResourcePath(loader.v, last.category, last.name) \in DOMAIN EmbeddedSchemas
    /\ last.value.some
    /\ last.value.v # JsonTexts[EmbeddedSchemas[ResourcePath(loader.v, last.category, last.name)]]

\* C9: when the local file exists but does not parse, load_schema goes on to
\* the bundled asset of the same coordinates and succeeds with it.
C9_BrokenLocalFileFallsBack ==
    (/\ last.op = "load_schema"
     /\ last.trace # <<>>
     /\ PathExists(FilePath(loader.v, last.category, last.name))
     /\ ~IsJsonText(FileAt(FilePath(loader.v, last.category, last.name)).text)
     /\ ResourcePath(loader.v, last.category, last.name) \in DOMAIN EmbeddedSchemas)
    => /\ last.outcome = "ok"
       /\ last.value =
            Some(JsonTexts[EmbeddedSchemas[ResourcePath(loader.v, last.category, last.name)]])

\* C10 (as stated): no usable loader exists whose cache was never populated
\* by a source.
C10_ReadyImpliesPopulated == loader.some => ever_populated

\* C10 (amended): SchemaLoader::new consults no source; it fails exactly when
\* a parameter is empty and otherwise yields a usable loader with an empty cache.
C10_ConstructionIsLazy ==
    last.op = "new"
    => /\ last.trace = <<>>
       /\ (last.outcome = "panic")
            <=> (last.schema_root = "" \/ last.domain = "" \/ last.version = "")
       /\ last.outcome = "ok"
            => /\ loader = Some([schema_cache |-> NoCache, schema_root |-> last.schema_root,
                                 domain |-> last.domain, version |-> last.version])
               /\ ~ever_populated

\* a usable loader with an empty cache, on a filesystem without any schema
C10_Witness ==
    /\ last.op = "new"
    /\ loader.some
    /\ loader.v.schema_cache = NoCache
    /\ \A p \in FsPaths : ~fs[p].exists

HasEmptyParameter(l) == l.schema_root = "" \/ l.domain = "" \/ l.version = ""

\* C11 (as stated): no lookup is ever served by a loader whose root, domain or
\* version is empty, whichever way the loader was built or changed.
C11_NoLookupWithEmptyParameter ==
    (/\ loader.some
     /\ \/ last.op = "load_schema" /\ last.outcome = "ok"
        \/ last.op = "load_schema_by_directory" /\ last.result.some)
    => ~HasEmptyParameter(loader.v)

\* C11 (amended): SchemaLoader::new never yields a loader with an empty
\* parameter; a loader with an empty domain or version comes only from
\* with_base_path, with_version or set_version_directory.
C11_EmptyParameterOnlyFromLegacy ==
    [][(loader'.some /\ HasEmptyParameter(loader'.v))
       => \/ last'.op \in {"with_base_path", "with_version", "set_version_directory"}
          \/ (loader.some /\ HasEmptyParameter(loader.v)
                /\ last'.op \notin {"new"})]_vars

\* a loader built by with_base_path, with empty domain and version, has found a
\* schema for load_schema_by_directory
C11_Witness ==
    /\ last.op = "load_schema_by_directory"
    /\ last.result.some
    /\ loader.some
    /\ loader.v.domain = ""
    /\ loader.v.version = ""

Range(seq) == { seq[i] : i \in 1..Len(seq) }

RequiredMessage(name) == "Required field missing: " \o name

\* the positions of the schema's required list that hold a string
RequiredStrings(schema) ==
    IF HasKey(schema, "required") /\ Get(schema, "required").kind = "array"
    THEN { i \in 1..Len(Get(schema, "required").items) :
             Get(schema, "required").items[i].kind = "string" }
    ELSE {}

RequiredName(schema, i) == Get(schema, "required").items[i].s

IsKeyOf(data, name) == data.kind = "object" /\ name \in DOMAIN data.fields

\* C12: validate_data reports "Required field missing: <name>" for exactly the
\* strings of the required list that are not keys of the data object, once per
\* such string; {} against SchemaA gives the one error for id, {id: "1"} none.
C12_RequiredFieldsReported ==
    last.op = "validate_data"
    => LET data == last.data
           schema == last.schema
           errors == last.result.v.errors
           strings == RequiredStrings(schema)
           missing == { i \in strings : ~IsKeyOf(data, RequiredName(schema, i)) }
           messages == { RequiredMessage(RequiredName(schema, i)) : i \in strings }
       IN /\ \A i \in strings :
                (RequiredMessage(RequiredName(schema, i)) \in Range(errors))
                   <=> (i \in missing)
          /\ Cardinality({ j \in 1..Len(errors) : errors[j] \in messages })
                = Cardinality(missing)
          /\ (schema = SchemaA /\ data = JObj(NoFields))
                => errors = <<"Required field missing: id">>
          /\ (schema = SchemaA /\ data = JObj([k \in {"id"} |-> JStr("1")]))
                => errors = <<>>

\* of the required strings id, name, id one is present and one is absent
C12_Witness ==
    /\ last.op = "validate_data"
    /\ Cardinality(RequiredStrings(last.schema)) = 3
    /\ IsKeyOf(last.data, "id")
    /\ last.result.v.errors = <<"Required field missing: name">>

KnownTypes == {"object", "array", "string", "number", "boolean", "null"}

TypeMessage(type) == "Invalid type. Expected: " \o type

DeclaresTypeString(schema) == HasKey(schema, "type") /\ Get(schema, "type").kind = "string"

\* C13: with a top-level type string in the schema, validate_data adds
\* "Invalid type. Expected: <type>" (once) iff the type is one of the six known
\* types and the kind of data differs from it; an unknown type string never
\* produces a type error.
C13_TypeErrorIffKnownAndDifferent ==
    (last.op = "validate_data" /\ DeclaresTypeString(last.schema))
    => LET type == Get(last.schema, "type").s
           errors == last.result.v.errors
           count == Cardinality({ j \in 1..Len(errors) : errors[j] = TypeMessage(type) })
       IN /\ count = (IF type \in KnownTypes /\ last.data.kind # type THEN 1 ELSE 0)
          /\ type \notin KnownTypes
               => \A j \in 1..Len(errors) : \A t \in KnownTypes \cup {type} :
                     errors[j] # TypeMessage(t)

\* the unknown type "integer" is satisfied by a string
C13_Witness ==
    /\ last.op = "validate_data"
    /\ DeclaresTypeString(last.schema)
    /\ Get(last.schema, "type").s = "integer"
    /\ last.data.kind = "string"
    /\ last.result.v = [valid |-> TRUE, errors |-> <<>>]

PropertyMessage(name, type) ==
    "Invalid type for field '" \o name \o "'. Expected: " \o type

\* the type strings that occur in the schemas of the model
TypeStrings == KnownTypes \cup {"integer"}

\* a value of this kind does not satisfy the declared type
Mismatch(kind, type) == type \in KnownTypes /\ kind # type

\* the properties of the schema that are checked: those that are keys of data
CheckedProperties(data, schema) ==
    IF HasKey(schema, "properties") /\ Get(schema, "properties").kind = "object"
       /\ data.kind = "object"
    THEN DOMAIN Get(schema, "properties").fields \cap DOMAIN data.fields
    ELSE {}

\* C14: for each property of the schema that is a key of data, validate_data
\* adds "Invalid type for field '<name>'. Expected: <type>" iff the kind of the
\* immediate value does not satisfy the property's declared type; a property
\* absent from data gives no error, and nothing inside a nested value is
\* checked, whatever required or properties the property fragment carries.
C14_PropertyCheckIsShallow ==
    last.op = "validate_data"
    => LET data == last.data
           schema == last.schema
           errors == last.result.v.errors
           checked == CheckedProperties(data, schema)
           fragment(n) == Get(schema, "properties").fields[n]
           expected(n) ==
               IF DeclaresTypeString(fragment(n))
                  /\ Mismatch(data.fields[n].kind, Get(fragment(n), "type").s)
               THEN {PropertyMessage(n, Get(fragment(n), "type").s)}
               ELSE {}
           top == { RequiredMessage(RequiredName(schema, i)) : i \in RequiredStrings(schema) }
                    \cup { TypeMessage(t) : t \in TypeStrings }
       IN /\ \A n \in checked :
                \A t \in TypeStrings :
                   Cardinality({ j \in 1..Len(errors) : errors[j] = PropertyMessage(n, t) })
                     = (IF PropertyMessage(n, t) \in expected(n) THEN 1 ELSE 0)
          /\ \A n \in {"id", "name", "slot"} \ checked :
                \A t \in TypeStrings, j \in 1..Len(errors) :
                   errors[j] # PropertyMessage(n, t)
          /\ \A j \in 1..Len(errors) :
                \/ errors[j] \in top
                \/ \E n \in checked : errors[j] \in expected(n)

\* slot is declared {type: object, required: [id], properties: {id: string}};
\* the value {id: 1} of slot violates that fragment and the result is valid
C14_Witness ==
    /\ last.op = "validate_data"
    /\ last.schema = SchemaNested
    /\ last.data = JObj([k \in {"slot"} |-> JObj([f \in {"id"} |-> JNum(1)])])
    /\ last.result.v = [valid |-> TRUE, errors |-> <<>>]

Count(errors, message) == Cardinality({ j \in 1..Len(errors) : errors[j] = message })

\* C15: for a header that is not entirely empty, validate reports each empty
\* identity field with its own error, exactly once, and reports no field that
\* is not empty; a call with an empty category or name always returns.
C15_HeaderChecksAreIndependent ==
    (last.op = "validate" /\ ~HeaderAllEmpty(last.envelope.header))
    => LET header == last.envelope.header
       IN /\ (header.schema_category = "" \/ header.schema_name = "")
               => last.outcome = "ok"
          /\ last.outcome = "ok"
               => LET errors == last.result.v.errors
                  IN /\ Count(errors, "Schema category is required in header")
                          = (IF header.schema_category = "" THEN 1 ELSE 0)
                     /\ Count(errors, "Schema name is required in header")
                          = (IF header.schema_name = "" THEN 1 ELSE 0)
                     /\ Count(errors, "Schema version is required in header")
                          = (IF header.schema_version = "" THEN 1 ELSE 0)

\* two empty identity fields, two errors
C15_Witness ==
    /\ last.op = "validate"
    /\ last.envelope.header.schema_category = ""
    /\ last.envelope.header.schema_name # ""
    /\ last.envelope.header.schema_version = ""
    /\ last.result = Some([valid |-> FALSE,
                           errors |-> <<"Schema category is required in header",
                                        "Schema version is required in header">>])

\* C16: validate asks the loader for a schema iff category and name are both
\* non-empty. When either is empty no source is consulted, the loader is left
\* as it is, the data is not checked and the errors are the header errors
\* only; when the schema is found the errors of validate_data on the
\* envelope's data follow the header errors.
C16_LookupIffCategoryAndName ==
    [][last'.op = "validate"
       => LET header == last'.envelope.header
              both == header.schema_category # "" /\ header.schema_name # ""
              headerMessages == {"Header is required",
                                 "Schema category is required in header",
                                 "Schema name is required in header",
                                 "Schema version is required in header"}
          IN /\ (last'.lookups = 1) <=> both
             /\ last'.lookups \in {0, 1}
             /\ ~both
                  => /\ last'.outcome = "ok"
                     /\ last'.trace = <<>>
                     /\ validator' = validator
                     /\ ~last'.data_checked
                     /\ Range(last'.result.v.errors) \subseteq headerMessages
                     /\ Len(last'.result.v.errors) >= 1
             /\ (both /\ last'.outcome = "ok")
                  => LET key == CacheKey(validator.v.schema_loader, header.schema_category,
                                         header.schema_name)
                         schema == validator'.v.schema_loader.schema_cache[key]
                     IN /\ last'.data_checked
                        /\ last'.result.v.errors
                             = (IF header.schema_version = ""
                                THEN <<"Schema version is required in header">>
                                ELSE <<>>)
                               \o validate_data(last'.envelope.data, schema).errors]_vars

\* a found schema with an empty version: the header error, then the data errors
C16_Witness ==
    /\ last.op = "validate"
    /\ last.outcome = "ok"
    /\ last.lookups = 1
    /\ last.envelope.header.schema_version = ""
    /\ Len(last.result.v.errors) >= 2
    /\ last.result.v.errors[1] = "Schema version is required in header"

\* schemas whose only content is a part validate_data does not recognize
MalformedSchemas ==
    { s \in StructuralSchemas :
        \/ s.kind # "object"
        \/ HasKey(s, "type") /\ Get(s, "type").kind # "string"
        \/ HasKey(s, "required") /\ Get(s, "required").kind # "array"
        \/ HasKey(s, "properties") /\ Get(s, "properties").kind # "object"
        \/ /\ HasKey(s, "properties") /\ Get(s, "properties").kind = "object"
           /\ \A n \in DOMAIN Get(s, "properties").fields :
                 ~DeclaresTypeString(Get(s, "properties").fields[n]) }

\* C17: validate_data returns a ValidationResult for every data and schema
\* value; a schema that is not an object, a required that is not a list, a
\* non-string element of required, a type that is not a string and a
\* properties that is not a mapping are ignored.
C17_ValidateDataIsTotal ==
    last.op = "validate_data"
    => LET result == last.result.v
       IN /\ last.outcome = "ok"
          /\ last.result.some
          /\ DOMAIN result = {"valid", "errors"}
          /\ result.valid \in BOOLEAN
          /\ \A j \in 1..Len(result.errors) : result.errors[j] \in STRING
          /\ last.schema \in MalformedSchemas
               => result = [valid |-> TRUE, errors |-> <<>>]
          /\ Len(result.errors) <= Cardinality(RequiredStrings(last.schema))
                                     + Cardinality(CheckedProperties(last.data, last.schema))
                                     + (IF DeclaresTypeString(last.schema) THEN 1 ELSE 0)

\* a schema that is not an object, against data that is not an object
C17_Witness ==
    /\ last.op = "validate_data"
    /\ last.schema.kind # "object"
    /\ last.data.kind # "object"
    /\ last.result = Some([valid |-> TRUE, errors |-> <<>>])

\* C18: a cache entry is never modified once inserted: every step other than
\* clear_cache (a load that hits, a load that inserts another key, a load that
\* fails, a change of the loader's version) leaves every existing entry in the
\* cache with the document it had; clear_cache removes all of them.
C18_EntriesAreImmutable ==
    [][(loader.some /\ loader'.some)
       => IF last'.op = "clear_cache"
          THEN loader'.v.schema_cache = NoCache
          ELSE \A k \in DOMAIN loader.v.schema_cache :
                  /\ k \in DOMAIN loader'.v.schema_cache
                  /\ loader'.v.schema_cache[k] = loader.v.schema_cache[k]]_vars

\* a lookup went to the sources while the cache holds an entry whose document
\* the sources no longer give
C18_Witness ==
    /\ loader.some
    /\ last.op \in {"load_schema", "load_schema_by_id", "load_schema_by_directory"}
    /\ last.trace # <<>>
    /\ LET key == CacheKey(loader.v, "inventory", "inventory_item")
           now == load_schema_internal(loader.v, "inventory", "inventory_item")
       IN /\ key \in DOMAIN loader.v.schema_cache
          /\ now.ok
          /\ now.value # loader.v.schema_cache[key]

\* the schema coordinates of a service call
CallCoordinates(call) ==
    IF call.op = "service_validate"
    THEN <<call.envelope.header.schema_category, call.envelope.header.schema_name>>
    ELSE <<call.category, call.name>>

\* C19: the service, its validator and its loader share one cache: after a
\* PactsService.validate that loaded a schema, the next PactsService.validate
\* or PactsService.validate_data with the same coordinates is a cache hit (no
\* source is read), and the two caches of the service hold the same entries.
C19_ServiceSharesOneCache ==
    [][(/\ last.op = "service_validate"
        /\ last.outcome = "ok"
        /\ last.lookups = 1
        /\ last'.op \in {"service_validate", "service_validate_data"}
        /\ CallCoordinates(last') = CallCoordinates(last))
       => /\ last'.trace = <<>>
          /\ service'.v.validator.schema_loader.schema_cache
               = service'.v.schema_loader.schema_cache]_vars

\* C20: the cache key is injective over schema coordinates, so a lookup is
\* never served from the entry of a lookup with other coordinates: when the
\* only entry of the cache is the one load_schema_by_directory(domain,
\* category, name) has just inserted, load_schema_by_id(schema_id, version)
\* misses the cache and goes to its own sources.
C20_CacheKeyIsInjective ==
    [][(/\ last.op = "load_schema_by_directory"
        /\ last.result.some
        /\ last.trace # <<>>
        /\ Cardinality(DOMAIN loader.v.schema_cache) = 1
        /\ last'.op = "load_schema_by_id")
       => /\ last'.trace # <<>>
          /\ IdCacheKey(last'.schema_id, last'.version)
               # DirCacheKey(last.domain, last.category, last.name)]_vars

(***************************************************************************)
(* Remote archive source (spec sections 4.2 and 6)                         *)
(***************************************************************************)
\* an archive entry: the directories of its internal path, the file stem and
\* extension, and its content
Entry(dirs, stem, ext, text) == [dirs |-> dirs, stem |-> stem, ext |-> ext, text |-> text]

ArchiveEntries ==
    { Entry(<<"pacts-main", "schemas", "bees", "v1", "inventory">>, "inventory_item", "json", TextA),
      Entry(<<"bees", "v2", "inventory">>, "inventory_item", "json", TextB),
      Entry(<<"bees", "v1", "inventory">>, "broken", "json", TextBad),
      Entry(<<"inventory">>, "inventory_item", "json", TextA),
      Entry(<<"bees", "v1", "inventory">>, "README", "md", TextBad) }

\* the archives of the model: every sequence of at most MaxEntries entries
MaxEntries == 3
Archives == UNION { [1..n -> ArchiveEntries] : n \in 0..MaxEntries }

IsSchemaFile(entry) == entry.ext = "json"
\* the last four path segments are domain, version, category and file name
HasPathDepth(entry) == Len(entry.dirs) >= 3
EntryKey(entry) ==
    LET n == Len(entry.dirs)
    IN entry.dirs[n - 2] \o "/" \o entry.dirs[n - 1] \o "/" \o entry.dirs[n] \o "/" \o entry.stem

RECURSIVE extract_entries_abort(_)
\* mutant: the first malformed entry ends the extraction
extract_entries_abort(archive) ==
    IF Len(archive) = 0 THEN [batch |-> NoCache, warnings |-> 0]
    ELSE LET entry == Head(archive)
         IN IF ~IsSchemaFile(entry) THEN extract_entries_abort(Tail(archive))
            ELSE IF ~HasPathDepth(entry) \/ ~from_str(entry.text).ok
            THEN [batch |-> NoCache, warnings |-> 1]
            ELSE LET rest == extract_entries_abort(Tail(archive))
                 IN [batch |-> (EntryKey(entry) :> from_str(entry.text).value) @@ rest.batch,
                     warnings |-> rest.warnings]

RECURSIVE extract_entries(_)
\* one pass over the entries: a malformed schema entry is skipped with a warning
extract_entries(archive) ==
    IF Len(archive) = 0 THEN [batch |-> NoCache, warnings |-> 0]
    ELSE LET entry == Head(archive)
             rest == extract_entries(Tail(archive))
         IN IF ~IsSchemaFile(entry) THEN rest
            ELSE IF ~HasPathDepth(entry) \/ ~from_str(entry.text).ok
            THEN [batch |-> rest.batch, warnings |-> rest.warnings + 1]
            ELSE [batch |-> (EntryKey(entry) :> from_str(entry.text).value) @@ rest.batch,
                  warnings |-> rest.warnings]

\* construction from a remote archive: fatal when the batch is empty
SchemaLoader_from_archive(schema_root, domain, version, archive) ==
    LET r == extract_entries(archive)
    IN IF r.batch = NoCache THEN None
       ELSE Some([SchemaLoader(schema_root, domain, version) EXCEPT !.schema_cache = r.batch])

NewFromArchive(archive) ==
    /\ ~panicked /\ NoObject
    /\ loader' = SchemaLoader_from_archive("schemas", "bees", "v1", archive)
    /\ panicked' = ~loader'.some
    /\ last' = [op |-> "new_from_archive", archive |-> archive,
                outcome |-> IF loader'.some THEN "ok" ELSE "panic",
                warnings |-> extract_entries(archive).warnings, trace |-> <<"remote_get">>]
    /\ ever_populated' = loader'.some
    /\ UNCHANGED <<fs, readdir_order, fs_writes, validator, service, first_loaded,
                   dir_loaded, cleared_keys>>

\* a SchemaLoader populated from a remote archive at construction
NextArchive ==
    \/ \E a \in Archives : NewFromArchive(a)
    \/ \E c \in Categories, n \in Names : LoadSchema(c, n)
    \/ ClearCache
SpecArchive == Init /\ [][NextArchive]_vars

WellFormed(entry) == IsSchemaFile(entry) /\ HasPathDepth(entry) /\ entry.text \in DOMAIN JsonTexts
Malformed(entry) == IsSchemaFile(entry) /\ ~WellFormed(entry)

\* C21: a malformed entry of a remote archive (unparsable JSON, fewer than four
\* path segments) is skipped and does not abort the batch: every well-formed
\* schema entry of the archive is in the cache under the key of its last four
\* path segments, and nothing else is.
C21_MalformedEntriesAreSkipped ==
    last.op = "new_from_archive"
    => LET archive == last.archive
           good == { i \in 1..Len(archive) : WellFormed(archive[i]) }
           bad == { i \in 1..Len(archive) : Malformed(archive[i]) }
       IN /\ (last.outcome = "ok") <=> (good # {})
          /\ last.warnings = Cardinality(bad)
          /\ last.outcome = "ok"
               => /\ \A i \in good :
                       /\ EntryKey(archive[i]) \in DOMAIN loader.v.schema_cache
                       /\ loader.v.schema_cache[EntryKey(archive[i])] = JsonTexts[archive[i].text]
                  /\ DOMAIN loader.v.schema_cache = { EntryKey(archive[i]) : i \in good }

\* a malformed entry comes first in the archive and a well-formed one after it
C21_Witness ==
    /\ last.op = "new_from_archive"
    /\ Len(last.archive) >= 2
    /\ Malformed(last.archive[1])
    /\ WellFormed(last.archive[2])
    /\ loader.some
    /\ EntryKey(last.archive[2]) \in DOMAIN loader.v.schema_cache

\* C22: the envelope handed to the sender by send_validated_data is the one
\* that was validated, unmodified: its header carries the coordinates of the
\* call, its data is the data of the call, it has no metadata, and the
\* validation of the call is the validation of that envelope.
C22_SentEnvelopeIsTheValidatedOne ==
    (last.op = "send_validated_data" /\ last.outcome = "ok" /\ last.validation.v.valid)
    => /\ Len(last.sent) = 1
       /\ LET envelope == last.sent[1]
          IN /\ envelope.header.schema_version = last.schema_version
             /\ envelope.header.schema_category = last.category
             /\ envelope.header.schema_name = last.name
             /\ envelope.header.content_type = Some("application/json")
             /\ envelope.data = last.data
             /\ envelope.metadata = None
             /\ validate(service.v.validator, envelope).outcome = "ok"
             /\ validate(service.v.validator, envelope).result = last.validation.v

\* a valid payload with a field has reached the sender
C22_Witness ==
    /\ last.op = "send_validated_data"
    /\ last.outcome = "ok"
    /\ Len(last.sent) = 1
    /\ last.sent[1].data = JObj([k \in {"id"} |-> JStr("1")])
    /\ last.sent[1].header.schema_name = "inventory_item"

\* C23: clear_cache only empties the cache: afterwards the cache has no entry,
\* the loader's schema root, domain and version are what they were, and no
\* source has been consulted.
C23_ClearCacheOnlyEmptiesTheCache ==
    [][last'.op = "clear_cache"
       => /\ loader'.some
          /\ loader'.v.schema_cache = NoCache
          /\ loader'.v.schema_root = loader.v.schema_root
          /\ loader'.v.domain = loader.v.domain
          /\ loader'.v.version = loader.v.version
          /\ last'.trace = <<>>
          /\ ~panicked']_vars

\* clear_cache has removed an entry that load_schema had cached
C23_Witness ==
    /\ last.op = "clear_cache"
    /\ loader.v.schema_cache = NoCache
    /\ \E k \in DOMAIN cleared_keys : cleared_keys[k]

\* the document the sources hold for a legacy lookup, None when they hold none
\* that parses: the local file if it exists, else the bundled asset
SourceDocument(file_path, resource_path) ==
    IF PathExists(file_path)
    THEN IF IsJsonText(FileAt(file_path).text)
         THEN Some(JsonTexts[FileAt(file_path).text]) ELSE None
    ELSE IF resource_path \in DOMAIN EmbeddedSchemas
         THEN Some(JsonTexts[EmbeddedSchemas[resource_path]]) ELSE None

IsLegacyLookup(call) == call.op \in {"load_schema_by_id", "load_schema_by_directory"}

LegacyKey(call) ==
    IF call.op = "load_schema_by_id" THEN call.schema_id \o "_" \o call.version
    ELSE call.domain \o "_" \o call.category \o "_" \o call.name

\* C24: a load_schema_by_id or load_schema_by_directory that fails returns None
\* without a panic and leaves the loader, cache included, as it was; a lookup
\* whose key is not in the cache always consults the sources, and
\* load_schema_by_id then returns the document they hold at that time.
C24_FailedLookupIsNotCached ==
    [][IsLegacyLookup(last')
       => /\ ~panicked'
          /\ ~last'.result.some => (loader' = loader /\ last'.trace # <<>>)
          /\ LegacyKey(last') \notin DOMAIN loader.v.schema_cache
               => /\ last'.trace # <<>>
                  /\ last'.op = "load_schema_by_id"
                       => last'.result
                            = SourceDocument(<<loader.v.schema_root,
                                               LegacyKey(last') \o ".json">>,
                                             LegacyKey(last') \o ".json")]_vars

\* a lookup has failed on a file that exists but holds no JSON, while the
\* cache held another entry
C24_Witness ==
    /\ last.op = "load_schema_by_id"
    /\ ~last.result.some
    /\ loader.v.schema_cache # NoCache
    /\ PathExists(<<"schemas", "bees_inventory_inventory_item.json">>)
    /\ LegacyKey(last) = "bees_inventory_inventory_item"

WithHeaderVersion(envelope, version) == [envelope EXCEPT !.header.schema_version = version]

\* C25: the schema validate checks against is selected by the loader's domain
\* and version and the header's category and name; the header's schema_version
\* takes no part: envelopes that differ only in a non-empty schema_version get
\* the same result from the same sources, with no version error, also when
\* that version is not the loader's.
C25_HeaderVersionIsNotUsed ==
    [][(/\ last'.op = "validate"
        /\ last'.envelope.header.schema_version # ""
        /\ last'.lookups = 1)
       => LET l == validator.v.schema_loader
              header == last'.envelope.header
          IN /\ \A other \in {"v1", "v2"} :
                   LET r == validate(validator.v, WithHeaderVersion(last'.envelope, other))
                   IN /\ r.outcome = last'.outcome
                      /\ r.trace = last'.trace
                      /\ r.validator = validator'.v
                      /\ last'.outcome = "ok" => Some(r.result) = last'.result
             /\ last'.outcome = "ok"
                  => /\ Count(last'.result.v.errors, "Schema version is required in header") = 0
                     /\ last'.result.v.errors
                          = validate_data(last'.envelope.data,
                               validator'.v.schema_loader.schema_cache[
                                  l.domain \o "/" \o l.version \o "/"
                                    \o header.schema_category \o "/" \o header.schema_name]).errors]_vars

\* an envelope of version v2 has been validated by a loader of version v1
\* while the v2 file holds another schema than the one used
C25_Witness ==
    /\ last.op = "validate"
    /\ last.outcome = "ok"
    /\ last.lookups = 1
    /\ last.envelope.header.schema_version = "v2"
    /\ validator.v.schema_loader.version = "v1"
    /\ LET v2file == FileAt(<<"schemas", "bees", "v2", "inventory", "inventory_item.json">>)
       IN /\ v2file.exists
          /\ IsJsonText(v2file.text)
          /\ validate_data(last.envelope.data, JsonTexts[v2file.text]) # last.result.v

ServiceOperations == {"service_validate", "service_validate_data", "send_validated_data"}

\* C26: no call of PactsService.validate, validate_data or send_validated_data
\* requests a borrow of a loader cell that is mutably borrowed, or a mutable
\* borrow of one that is borrowed, whatever the sender does with the service's
\* loader: a call that panics panics in the schema lookup.
C26_NoDoubleBorrow ==
    last.op \in ServiceOperations
      => /\ ~last.already_borrowed
         /\ last.outcome = "panic" => (panicked /\ last.trace # <<>>)

\* a sender that mutably borrows the service's loader has been called, after
\* validate_data held its mutable borrow across a lookup of the sources
C26_Witness ==
    /\ last.op = "send_validated_data"
    /\ last.outcome = "ok"
    /\ last.sent # <<>>
    /\ last.sender_borrows = <<BorrowMut(ServiceCell), Drop(ServiceCell)>>
    /\ service.some
    /\ service.v.schema_loader.schema_cache # NoCache

\* the i-th smallest element of a set of positions
Nth(positions, i) ==
    CHOOSE p \in positions : Cardinality({ q \in positions : q < p }) = i - 1

PropertyMessages == { PropertyMessage(n, t) : n \in {"id", "name", "slot"}, t \in TypeStrings }

\* C27: the errors of validate_data are those of the required check, in the
\* order of the required list, then the type error if any, then the property
\* errors; no check is skipped because another one failed, so one value can
\* carry errors of all three kinds.
C27_ErrorsAreOrderedByCheck ==
    last.op = "validate_data"
    => LET data == last.data
           schema == last.schema
           errors == last.result.v.errors
           missing == { i \in RequiredStrings(schema) :
                          ~IsKeyOf(data, RequiredName(schema, i)) }
           a == Cardinality(missing)
           typed == IF /\ DeclaresTypeString(schema)
                       /\ Mismatch(data.kind, Get(schema, "type").s)
                    THEN 1 ELSE 0
           fragment(n) == Get(schema, "properties").fields[n]
           mistyped == { n \in CheckedProperties(data, schema) :
                           /\ DeclaresTypeString(fragment(n))
                           /\ Mismatch(data.fields[n].kind, Get(fragment(n), "type").s) }
       IN /\ Len(errors) = a + typed + Cardinality(mistyped)
          /\ \A j \in 1..a :
                errors[j] = RequiredMessage(RequiredName(schema, Nth(missing, j)))
          /\ typed = 1 => errors[a + 1] = TypeMessage(Get(schema, "type").s)
          /\ \A j \in (a + typed + 1)..Len(errors) : errors[j] \in PropertyMessages

\* {id: 1, slot: "x"} against SchemaThreeChecks fails all three checks
C27_Witness ==
    /\ last.op = "validate_data"
    /\ last.schema = SchemaThreeChecks
    /\ last.result.v.errors
         = << "Required field missing: name",
              "Invalid type. Expected: array",
              "Invalid type for field 'id'. Expected: string",
              "Invalid type for field 'slot'. Expected: object" >>

\* C28: a required field is present when data is an object with that key,
\* whatever the value, null included; data that is not an object has no key,
\* so each string of the required list is reported, once per occurrence, and
\* no property is checked.
C28_PresenceIsJudgedByKey ==
    last.op = "validate_data"
    => LET data == last.data
           schema == last.schema
           errors == last.result.v.errors
           strings == RequiredStrings(schema)
       IN /\ \A i \in strings :
                (/\ data.kind = "object"
                 /\ RequiredName(schema, i) \in DOMAIN data.fields
                 /\ data.fields[RequiredName(schema, i)].kind = "null")
                => Count(errors, RequiredMessage(RequiredName(schema, i))) = 0
          /\ data.kind # "object"
                => /\ \A i \in strings :
                         Count(errors, RequiredMessage(RequiredName(schema, i)))
                           = Cardinality({ j \in strings :
                                             RequiredName(schema, j) = RequiredName(schema, i) })
                   /\ \A m \in PropertyMessages : Count(errors, m) = 0
                   /\ Len(errors) <= Cardinality(strings) + 1

\* {id: null} against SchemaA: id is present, and of the wrong type
C28_Witness ==
    /\ last.op = "validate_data"
    /\ last.schema = SchemaA
    /\ last.data = JObj([k \in {"id"} |-> JNull])
    /\ last.result.v.errors = <<"Invalid type for field 'id'. Expected: string">>

I32Max == 2147483647
I32Min == -I32Max - 1

MaxVersionLen == 3

\* version strings are sequences of characters here
VersionChars == {"v", "0", "1", "-", "+", "x"}
BoundaryVersions ==
    { <<"v", "2", "1", "4", "7", "4", "8", "3", "6", "4", "7">>,
      <<"v", "2", "1", "4", "7", "4", "8", "3", "6", "4", "8">>,
      <<"-", "2", "1", "4", "7", "4", "8", "3", "6", "4", "8">>,
      <<"-", "2", "1", "4", "7", "4", "8", "3", "6", "4", "9">>,
      <<"v", "-", "2", "1", "4", "7", "4", "8", "3", "6", "4", "8", "v">>,
      <<"+", "2", "1", "4", "7", "4", "8", "3", "6", "4", "7">>,
      <<"v", "0", "0", "0", "2", "1", "4", "7", "4", "8", "3", "6", "4", "7">>,
      <<"9", "9", "9", "9", "9", "9", "9", "9", "9", "9", "9">>,
      <<"V", "1">>,
      <<"v", "1", ".", "0">> }
VersionStrings ==
    UNION { [1..n -> VersionChars] : n \in 0..MaxVersionLen } \cup BoundaryVersions

DigitChars == <<"0", "1", "2", "3", "4", "5", "6", "7", "8", "9">>
IsDigit(c) == \E d \in 1..10 : DigitChars[d] = c
to_digit(c) == (CHOOSE d \in 1..10 : DigitChars[d] = c) - 1

\* str::replace(from, ""), from a single character
replace(s, from) == SelectSeq(s, LAMBDA c : c # from)

\* i32::checked_mul(10) followed by checked_add / checked_sub of a digit: None
\* when the result leaves the i32 range
checked_push(acc, d, negative) ==
    IF negative
    THEN IF acc < (I32Min + d + 9) \div 10 THEN None ELSE Some(acc * 10 - d)
    ELSE IF acc > (I32Max - d) \div 10 THEN None ELSE Some(acc * 10 + d)

RECURSIVE parse_digits(_, _, _)
parse_digits(digits, acc, negative) ==
    IF digits = <<>>
    THEN Some(acc)
    ELSE IF ~IsDigit(Head(digits))
    THEN None
    ELSE LET next == checked_push(acc, to_digit(Head(digits)), negative)
         IN IF next.some THEN parse_digits(Tail(digits), next.v, negative) ELSE None

\* str::parse::<i32>: an optional sign, then at least one decimal digit
parse_i32(s) ==
    IF s = <<>>
    THEN None
    ELSE LET digits == IF Head(s) \in {"+", "-"} THEN Tail(s) ELSE s
         IN IF digits = <<>> THEN None ELSE parse_digits(digits, 0, Head(s) = "-")

unwrap_or(r, default) == IF r.some THEN r.v ELSE default

\* mutant: only a leading v is removed
get_parsed_version_strip_prefix(l) ==
    unwrap_or(parse_i32(IF l.version # <<>> /\ Head(l.version) = "v"
                        THEN Tail(l.version) ELSE l.version), 1)

get_parsed_version(l) == unwrap_or(parse_i32(replace(l.version, "v")), 1)

InitParse ==
    /\ fs = [p \in FsPaths |-> NoFile]
    /\ readdir_order = <<"v1", "v2">>
    /\ fs_writes = 0
    /\ loader \in { Some(SchemaLoader("schemas", "bees", version)) : version \in VersionStrings }
    /\ validator = None
    /\ service = None
    /\ panicked = FALSE
    /\ last = [op |-> "init"]
    /\ first_loaded = NoHistory
    /\ dir_loaded = NoHistory
    /\ cleared_keys = NoHistory
    /\ ever_populated = FALSE

GetParsedVersion ==
    /\ ~panicked /\ loader.some
    /\ last' = [op |-> "get_parsed_version", version |-> loader.v.version,
                value |-> get_parsed_version(loader.v)]
    /\ UNCHANGED <<fs, readdir_order, fs_writes, loader, validator, service, panicked,
                   first_loaded, dir_loaded, ever_populated, cleared_keys>>

NextParse == GetParsedVersion
SpecParse == InitParse /\ [][NextParse]_vars

\* the digits of a numeral: an optional sign followed by digits only
NumeralBody(s) == IF s # <<>> /\ s[1] \in {"+", "-"} THEN Tail(s) ELSE s
IsNumeral(s) == NumeralBody(s) # <<>> /\ \A i \in 1..Len(NumeralBody(s)) : IsDigit(NumeralBody(s)[i])

RECURSIVE StripZeros(_)
StripZeros(digits) ==
    IF Len(digits) > 1 /\ digits[1] = "0" THEN StripZeros(Tail(digits)) ELSE digits

\* digit strings of equal length compared as numbers
DigitsLeq(a, b) ==
    \/ a = b
    \/ \E i \in 1..Len(a) :
          /\ SubSeq(a, 1, i - 1) = SubSeq(b, 1, i - 1)
          /\ to_digit(a[i]) < to_digit(b[i])

\* the numeral denotes an integer of the i32 range: at most ten significant
\* digits, and no more than 2147483647, or 2147483648 after a minus sign
InI32Range(s) ==
    LET magnitude == StripZeros(NumeralBody(s))
        limit == <<"2", "1", "4", "7", "4", "8", "3", "6", "4",
                   IF s[1] = "-" THEN "8" ELSE "7">>
    IN \/ Len(magnitude) < 10
       \/ Len(magnitude) = 10 /\ DigitsLeq(magnitude, limit)

RECURSIVE Decimal(_)
\* the decimal digits of the magnitude of a non-zero integer
Decimal(n) ==
    IF n = 0
    THEN <<>>
    ELSE LET d == IF n > 0 THEN n % 10 ELSE (10 - (n % 10)) % 10
             q == IF n > 0 THEN n \div 10 ELSE (n + d) \div 10
         IN Decimal(q) \o <<DigitChars[d + 1]>>

\* C30: get_parsed_version removes every v from the version, reads the rest as
\* a decimal i32 and returns it ("v1" gives 1); it returns 1 when the rest is
\* empty, is not a numeral, or denotes a number outside the i32 range.
C30_ParsedVersion ==
    last.op = "get_parsed_version"
    => LET rest == replace(last.version, "v")
           value == last.value
       IN /\ \A i \in 1..Len(rest) : rest[i] # "v"
          /\ Len(rest) = Cardinality({ i \in 1..Len(last.version) : last.version[i] # "v" })
          /\ IF IsNumeral(rest) /\ InI32Range(rest)
             THEN /\ (IF value = 0 THEN <<"0">> ELSE Decimal(value))
                       = StripZeros(NumeralBody(rest))
                  /\ value < 0 => rest[1] = "-"
                  /\ value > 0 => rest[1] # "-"
             ELSE value = 1
          /\ last.version = <<"v", "1">> => value = 1

\* v2147483648 is one more than the largest i32 and gives the default
C30_Witness ==
    /\ last.op = "get_parsed_version"
    /\ last.version = <<"v", "2", "1", "4", "7", "4", "8", "3", "6", "4", "8">>
    /\ last.value = 1

====
